---- MODULE Spec2Model ----
(***************************************************************************)
(* Renter-side chunk scheduler and worker pipeline of Sia.                 *)
(*                                                                         *)
(*   Spec          one unfinishedDownloadChunk handed to the download      *)
(*                 workers (workerdownload.go)                             *)
(*   SpecHeap      the upload heap (uploadheap.go)                         *)
(*   SpecRepairLoop  the iterations of managedRepairLoop step by step      *)
(*   SpecDownload  the completion latch of a download (download.go)        *)
(*   SpecFailing   Spec when no host delivers, with fairness               *)
(*   SpecRequest   one download request, from its parameters to the chunks *)
(*                 in the download heap (download.go, snapshot.go)         *)
(*   SpecCounted   the bytes received that the pieces of one chunk add to  *)
(*                 the download (workerdownload.go)                        *)
(*   SpecBuild     one call of buildUnfinishedChunks (uploadheap.go)       *)
(*   SpecHistory   the download history and ClearDownloadHistory           *)
(*                 (download.go)                                           *)
(*   SpecLocks     the mutexes the threads of a download chunk lock        *)
(*                 (workerdownload.go)                                     *)
(*   SpecPush      one call of managedBuildAndPushChunks (uploadheap.go)   *)
(*   SpecApi       the downloads the API can cancel (node/api/renter.go)   *)
(*   SpecSector    the part of a sector fetched for a range of a chunk     *)
(*                 (workerdownload.go)                                     *)
(*   SpecFileSet   the SiaFileSet and its two maps (siafileset.go)         *)
(*   SpecSnapshot  Snapshot and the mutex of the siafile (snapshot.go)     *)
(*   SpecUpdates   one call of SiaFile.applyUpdates (siafile persist.go)   *)
(*   SpecNode      one call of Node.Close (node/node.go)                   *)
(*                                                                         *)
(* Every section of code that runs under one mutex is one atomic action;   *)
(* code that runs without a lock is split at every access to shared state. *)
(***************************************************************************)
EXTENDS Integers, Sequences, FiniteSets, TLC

(***************************************************************************)
(* Bounds of the model.                                                    *)
(***************************************************************************)
NumWorkers == 2
MinPieces == 1
NumPieces == 2
MaxOverdrive == 1
NumUploadChunks == 2
UploadMemory == 1
maxConsecutiveChunkRepairs == 2
MaxStuckChunks == 1
NumDownloadChunks == 2
\* uint64 has WordBits bits; a file has at most MaxFileSize bytes and its
\* pieces at most MaxPieceSize bytes.
WordBits == 4
MaxFileSize == 7
MaxPieceSize == 3
\* A chunk is fetched for at most MaxFetchLength bytes; an erasure code needs
\* at most MaxCodeMinPieces pieces.
MaxFetchLength == 9
MaxCodeMinPieces == 3

Workers == 1..NumWorkers
Pieces == 0..(NumPieces - 1)
NoPiece == -1

\* Threads that can run managedQueueDownloadChunk / managedRemoveWorker: the
\* worker threads (a worker drains its own queue when its work loop exits)
\* and the download loop that distributes the chunk.
Dist == NumWorkers + 1
Threads == Workers \cup {Dist}
NoWorker == NumWorkers + 2

VARIABLES
    \* unfinishedDownloadChunk
    piecesRegistered, piecesCompleted, workersRemaining,
    pieceUsage, completedPieces, workersStandby,
    failed, recoveryComplete, memoryReleased,
    staticChunkMap, staticOverdrive,
    \* worker
    downloadChunks, downloadTerminated,
    \* control state of the threads
    pc, acct, target, toDistribute, removedChunks,
    recovering,
    \* cooldown of the workers
    ownedDownloadConsecutiveFailures, ownedDownloadRecentFailure, now,
    \* download and renter
    completeChan, err,
    \* history
    removedFor, recoveryLaunched, tgAddFailed, queuedInto,
    \* uploadHeap and the repair loop
    heap, heapChunks, repairingChunks,
    uuc, pcRepair, nextChunk, consecutiveChunkRepairs, stuckChunks,
    fetching, distributed, rejectedPush,
    \* download: the completion functions and the threads that touch them
    downloadCompleteFuncs, executed, registeredFuncs, mu, chunksRemaining,
    pcApi, appendBase, pcComplete,
    \* history: the functions in the order of their registration and of
    \* their execution
    registrationOrder, executionOrder,
    \* one download request: the file it names, its raw parameters, the
    \* parsed parameters, the response, and what the renter keeps of it
    fileExists, fileSize, pieceSize, numChunks, offsetparam, lengthparam,
    pcRequest, params, response, destination, downloadHistory, downloadHeap,
    \* download.atomicDataReceived, udc.staticFetchLength of the chunk, and
    \* erasureCode.MinPieces() of the chunk whose pieces are counted alone
    atomicDataReceived, chunkFetchLength, codeMinPieces,
    \* managedRepairLoop: the health and the number of workers it read for
    \* the chunk it popped, whether it updated the recent repair time of the
    \* file for it; the chunks that are stuck in the metadata of their file
    health, availableWorkers, updatedRecentRepairTime, fileStuck,
    \* the call of buildUnfinishedChunks in progress, with its arguments, its
    \* locals and the file it reads
    build,
    \* the call of ClearDownloadHistory that has returned and is not answered
    \* yet, with its arguments and its error
    clearing,
    \* the threads of one download chunk with the mutexes they hold: where
    \* each thread is, udc.mu and the downloadMu of the workers
    lk,
    \* the call in progress of a function that is checked on its own, with
    \* its arguments and what it has done so far
    call

chunkVars == <<piecesRegistered, piecesCompleted, workersRemaining,
               pieceUsage, completedPieces, workersStandby,
               failed, recoveryComplete, memoryReleased, staticChunkMap,
               staticOverdrive>>
workerVars == <<downloadChunks, downloadTerminated,
                ownedDownloadConsecutiveFailures, ownedDownloadRecentFailure, now>>
threadVars == <<pc, acct, target, toDistribute, removedChunks, recovering>>
histVars == <<removedFor, recoveryLaunched, tgAddFailed, queuedInto>>
dlVars == <<chunkVars, workerVars, threadVars, histVars>>

uploadVars == <<heap, heapChunks, repairingChunks, uuc, pcRepair, nextChunk,
                consecutiveChunkRepairs, stuckChunks, fetching, distributed,
                rejectedPush>>

latchVars == <<downloadCompleteFuncs, executed, registeredFuncs, mu, chunksRemaining,
               pcApi, appendBase, pcComplete, registrationOrder, executionOrder>>

requestVars == <<fileExists, fileSize, pieceSize, numChunks, offsetparam, lengthparam,
                 pcRequest, params, response, destination, downloadHistory,
                 downloadHeap>>

receivedVars == <<atomicDataReceived, chunkFetchLength, codeMinPieces>>

repairVars == <<health, availableWorkers, updatedRecentRepairTime, fileStuck>>

callVars == <<build, clearing, lk, call>>

vars == <<dlVars, completeChan, err, uploadVars, latchVars, requestVars, receivedVars,
          repairVars, callVars>>

(***************************************************************************)
(* Helpers                                                                 *)
(***************************************************************************)
NoError == "nil"
ErrDownloadCancelled == "download cancelled"
ErrChunkFailed == "chunk failed"

\* The state a thread returns to when a managedRemoveWorker /
\* managedQueueDownloadChunk call chain returns.
Base(t) ==
    IF t = Dist THEN "dist"
    ELSE IF ~downloadTerminated[t] THEN "idle"
    ELSE IF removedChunks[t] > 0 THEN "killloop" ELSE "dead"

\* staticChunkMap[host]: a missing key yields the zero downloadPieceInfo,
\* whose index is 0.
workerHasPiece(w) == staticChunkMap[w] # NoPiece
pieceIndex(w) == IF workerHasPiece(w) THEN staticChunkMap[w] ELSE 0

\* downloadFailureCooldown * 2^min(failures, maxConsecutivePenalty)
downloadFailureCooldown == 3
maxConsecutivePenalty == 10

RECURSIVE requiredCooldown(_, _)
requiredCooldown(i, failures) ==
    IF i < failures /\ i < maxConsecutivePenalty
    THEN 2 * requiredCooldown(i + 1, failures)
    ELSE downloadFailureCooldown

ownedOnDownloadCooldown(w) ==
    now < ownedDownloadRecentFailure[w]
            + requiredCooldown(0, ownedDownloadConsecutiveFailures[w])

CountTrue(f) == Cardinality({i \in DOMAIN f : f[i]})

(***************************************************************************)
(* Decisions of the code, one operator each.                               *)
(***************************************************************************)
dropChunk_IgnoreDownload(w) ==
    LET chunkComplete == piecesCompleted >= MinPieces
        chunkFailed == piecesCompleted + workersRemaining < MinPieces
        pieceCompleted == completedPieces[pieceIndex(w)]
    IN  chunkComplete \/ chunkFailed \/ ownedOnDownloadCooldown(w)
          \/ ~workerHasPiece(w) \/ pieceCompleted

\* ownedProcessDownloadChunk: the worker drops the chunk.
dropChunk(w) ==
    LET chunkComplete == piecesCompleted >= MinPieces \/ completeChan
        chunkFailed == piecesCompleted + workersRemaining < MinPieces
        pieceCompleted == completedPieces[pieceIndex(w)]
    IN  chunkComplete \/ chunkFailed \/ ownedOnDownloadCooldown(w)
          \/ ~workerHasPiece(w) \/ pieceCompleted

workersDesired_Never(piecesInProgress, desiredPiecesInProgress, pieceTaken) == FALSE

workersDesired_NoPieceTaken(piecesInProgress, desiredPiecesInProgress, pieceTaken) ==
    piecesInProgress < desiredPiecesInProgress

workersDesired_AtMost(piecesInProgress, desiredPiecesInProgress, pieceTaken) ==
    piecesInProgress <= desiredPiecesInProgress /\ ~pieceTaken

\* ownedProcessDownloadChunk: another active worker is wanted.
workersDesired(piecesInProgress, desiredPiecesInProgress, pieceTaken) ==
    piecesInProgress < desiredPiecesInProgress /\ ~pieceTaken

unregisterUsage_Keep(usage, index) == usage

\* managedUnregisterWorker: the piece slot is given back.
unregisterUsage(usage, index) == [usage EXCEPT ![index] = FALSE]

unregisterCount_Keep(registered) == registered

\* managedUnregisterWorker: the registration is given back.
unregisterCount(registered) == registered - 1

\* The memory of the chunk is released when no worker remains and the
\* recovery, or the failure, has been finalized.
releaseDue(remaining, finalized) == remaining = 0 /\ finalized

dropStep_Return == "idle"

\* ownedProcessDownloadChunk: the worker that drops the chunk goes on with
\* udc.managedRemoveWorker().
dropStep == "remove"

standbyAfterClaim_FallThrough(standby, w) == Append(standby, w)

\* ownedProcessDownloadChunk: the worker that registered returns the chunk
\* and does not reach the standby list.
standbyAfterClaim(standby, w) == standby

recoveryDue_AtLeast(completed) == completed >= MinPieces

\* managedDownload: this completion is the one that starts the recovery.
recoveryDue(completed) == completed = MinPieces

queueAccepts_Always(terminated) == TRUE

\* managedQueueDownloadChunk: the chunk is accepted unless the worker has been
\* terminated.
queueAccepts(terminated) == ~terminated

removedChunksOf_None(queue) == 0

\* managedKillDownloading: the number of chunks taken out of the queue.
removedChunksOf(queue) == Len(queue)

(***************************************************************************)
(* download                                                                *)
(***************************************************************************)
\* managedFail as seen by the chunk: the first error is kept.
managedFail(e) ==
    IF completeChan
    THEN UNCHANGED <<completeChan, err>>
    ELSE /\ err' = e
         /\ completeChan' = TRUE

managedCancel ==
    /\ managedFail(ErrDownloadCancelled)
    /\ UNCHANGED dlVars
    /\ UNCHANGED <<uploadVars, latchVars, requestVars, receivedVars, repairVars, callVars>>

(***************************************************************************)
(* Calls that every thread can make on the chunk.                          *)
(***************************************************************************)
\* worker.managedQueueDownloadChunk(udc) on the worker target[t].
managedQueueDownloadChunk(t) ==
    /\ pc[t] = "queue"
    /\ LET s == target[t] IN
       IF queueAccepts(downloadTerminated[s])
       THEN /\ downloadChunks' = [downloadChunks EXCEPT ![s] = Append(@, "udc")]
            /\ queuedInto' = [queuedInto EXCEPT ![s] = @ + 1]
            /\ pc' = [pc EXCEPT ![t] = Base(t)]
            /\ UNCHANGED acct
       ELSE /\ pc' = [pc EXCEPT ![t] = "remove"]
            /\ acct' = [acct EXCEPT ![t] = s]
            /\ UNCHANGED <<downloadChunks, queuedInto>>
    /\ target' = [target EXCEPT ![t] = NoWorker]
    /\ UNCHANGED <<chunkVars, downloadTerminated, ownedDownloadConsecutiveFailures,
                   ownedDownloadRecentFailure, now, toDistribute,
                   removedChunks, recovering, removedFor, recoveryLaunched,
                   tgAddFailed, completeChan, err>>
    /\ UNCHANGED <<uploadVars, latchVars, requestVars, receivedVars, repairVars, callVars>>

\* udc.managedRemoveWorker, first critical section.
managedRemoveWorker(t) ==
    /\ pc[t] \in {"remove", "unregistered"}
    /\ workersRemaining' = workersRemaining - 1
    /\ removedFor' = [removedFor EXCEPT ![acct[t]] = @ + 1]
    /\ pc' = [pc EXCEPT ![t] = "cleanup"]
    /\ acct' = [acct EXCEPT ![t] = NoWorker]
    /\ UNCHANGED <<piecesRegistered, piecesCompleted, pieceUsage, completedPieces,
                   workersStandby, failed, recoveryComplete, memoryReleased,
                   staticChunkMap, staticOverdrive, workerVars, target, toDistribute,
                   removedChunks, recovering, recoveryLaunched, tgAddFailed,
                   queuedInto,
                   completeChan, err>>
    /\ UNCHANGED <<uploadVars, latchVars, requestVars, receivedVars, repairVars, callVars>>

\* udc.managedCleanUp: fail the chunk when it became unrecoverable, else wake
\* one standby worker when another active worker is wanted.
managedCleanUp(t) ==
    /\ pc[t] = "cleanup"
    /\ LET newlyFailed == workersRemaining + piecesCompleted < MinPieces /\ ~failed
           nowFailed == failed \/ newlyFailed
           chunkComplete == piecesCompleted >= MinPieces
           needed == MinPieces + staticOverdrive - (piecesRegistered + piecesCompleted)
       IN  /\ failed' = nowFailed
           /\ recoveryComplete' = (recoveryComplete \/ newlyFailed)
           /\ memoryReleased' = (memoryReleased
                                   \/ releaseDue(workersRemaining, recoveryComplete'))
           /\ IF newlyFailed
              THEN managedFail(ErrChunkFailed)
              ELSE UNCHANGED <<completeChan, err>>
           /\ IF ~nowFailed /\ ~chunkComplete /\ needed > 0 /\ workersStandby # <<>>
              THEN /\ workersStandby' = Tail(workersStandby)
                   /\ target' = [target EXCEPT ![t] = Head(workersStandby)]
                   /\ pc' = [pc EXCEPT ![t] = "queue"]
              ELSE /\ pc' = [pc EXCEPT ![t] = Base(t)]
                   /\ UNCHANGED <<workersStandby, target>>
    /\ UNCHANGED <<piecesRegistered, piecesCompleted, workersRemaining, pieceUsage,
                   completedPieces, staticChunkMap, staticOverdrive, workerVars,
                   acct, toDistribute, removedChunks, recovering, histVars>>
    /\ UNCHANGED <<uploadVars, latchVars, requestVars, receivedVars, repairVars, callVars>>

(***************************************************************************)
(* The download loop hands the chunk to every worker.                      *)
(***************************************************************************)
managedDistributeDownloadChunkToWorkers ==
    /\ pc[Dist] = "dist"
    /\ \E w \in toDistribute :
         /\ toDistribute' = toDistribute \ {w}
         /\ target' = [target EXCEPT ![Dist] = w]
         /\ pc' = [pc EXCEPT ![Dist] = "queue"]
    /\ UNCHANGED <<chunkVars, workerVars, acct, removedChunks, recovering,
                   histVars, completeChan, err>>
    /\ UNCHANGED <<uploadVars, latchVars, requestVars, receivedVars, repairVars, callVars>>

(***************************************************************************)
(* The worker thread.                                                      *)
(***************************************************************************)
managedNextDownloadChunk(w) ==
    /\ pc[w] = "idle"
    /\ downloadChunks[w] # <<>>
    /\ downloadChunks' = [downloadChunks EXCEPT ![w] = Tail(@)]
    /\ pc' = [pc EXCEPT ![w] = "process"]
    /\ UNCHANGED <<chunkVars, downloadTerminated, ownedDownloadConsecutiveFailures,
                   ownedDownloadRecentFailure, now, acct, target, toDistribute,
                   removedChunks, recovering, histVars, completeChan, err>>
    /\ UNCHANGED <<uploadVars, latchVars, requestVars, receivedVars, repairVars, callVars>>

ownedProcessDownloadChunk(w) ==
    /\ pc[w] = "process"
    /\ IF dropChunk(w)
       THEN \* the worker is removed from the chunk
            /\ pc' = [pc EXCEPT ![w] = dropStep]
            /\ acct' = [acct EXCEPT ![w] = IF dropStep = "remove" THEN w ELSE NoWorker]
            /\ UNCHANGED <<piecesRegistered, pieceUsage, workersStandby>>
       ELSE LET pieceTaken == pieceUsage[pieceIndex(w)]
                piecesInProgress == piecesRegistered + piecesCompleted
                desiredPiecesInProgress == MinPieces + staticOverdrive
            IN  IF workersDesired(piecesInProgress, desiredPiecesInProgress, pieceTaken)
                THEN \* the worker registers for its piece
                     /\ piecesRegistered' = piecesRegistered + 1
                     /\ pieceUsage' = [pieceUsage EXCEPT ![pieceIndex(w)] = TRUE]
                     /\ workersStandby' = standbyAfterClaim(workersStandby, w)
                     /\ pc' = [pc EXCEPT ![w] = "fetch"]
                     /\ UNCHANGED acct
                ELSE \* the worker goes on standby
                     /\ workersStandby' = Append(workersStandby, w)
                     /\ pc' = [pc EXCEPT ![w] = "idle"]
                     /\ UNCHANGED <<acct, piecesRegistered, pieceUsage>>
    /\ UNCHANGED <<piecesCompleted, workersRemaining, completedPieces, failed,
                   recoveryComplete, memoryReleased, staticChunkMap, staticOverdrive,
                   workerVars, target, toDistribute, removedChunks, recovering,
                   histVars, completeChan, err>>
    /\ UNCHANGED <<uploadVars, latchVars, requestVars, receivedVars, repairVars, callVars>>

\* managedDownload: creating the downloader, downloading the sector or
\* decrypting the piece fails; managedUnregisterWorker, then the deferred
\* managedRemoveWorker.
managedDownloadFail(w) ==
    /\ pc[w] = "fetch"
    /\ \E stage \in {"downloader", "download", "decrypt"} :
         /\ piecesRegistered' = unregisterCount(piecesRegistered)
         /\ pieceUsage' = unregisterUsage(pieceUsage, pieceIndex(w))
    /\ pc' = [pc EXCEPT ![w] = "unregistered"]
    /\ acct' = [acct EXCEPT ![w] = w]
    /\ UNCHANGED <<piecesCompleted, workersRemaining, completedPieces, workersStandby,
                   failed, recoveryComplete, memoryReleased, staticChunkMap,
                   staticOverdrive, workerVars, target, toDistribute, removedChunks,
                   recovering, histVars, completeChan, err>>
    /\ UNCHANGED <<uploadVars, latchVars, requestVars, receivedVars, repairVars, callVars>>

\* managedDownload: what the completion that brings piecesCompleted to
\* completed adds to download.atomicDataReceived: a K-th of the fetch length
\* for each of the first K pieces, and with the K-th what the division left.
receivedOnCompletion_NoRemainder(completed, minPieces, fetchLength) ==
    IF completed <= minPieces THEN fetchLength \div minPieces ELSE 0

receivedOnCompletion(completed, minPieces, fetchLength) ==
    (IF completed <= minPieces THEN fetchLength \div minPieces ELSE 0)
    + (IF completed = minPieces
       THEN fetchLength - minPieces * (fetchLength \div minPieces)
       ELSE 0)

\* managedDownload: the piece arrived; the last critical section, then the
\* deferred managedRemoveWorker.
managedDownloadComplete(w) ==
    /\ pc[w] = "fetch"
    /\ completedPieces' = [completedPieces EXCEPT ![pieceIndex(w)] = TRUE]
    /\ piecesCompleted' = piecesCompleted + 1
    /\ piecesRegistered' = piecesRegistered - 1
    /\ atomicDataReceived' = atomicDataReceived
            + receivedOnCompletion(piecesCompleted', MinPieces, chunkFetchLength)
    /\ IF recoveryDue(piecesCompleted')
       THEN \E tgAdd \in {"ok", "stopped"} :
              IF tgAdd = "stopped"
              THEN \* the renter is shutting down, tg.Add() fails: no recovery
                   /\ tgAddFailed' = TRUE
                   /\ UNCHANGED <<recoveryLaunched, recovering>>
              ELSE /\ recoveryLaunched' = recoveryLaunched + 1
                   /\ recovering' = recovering + 1
                   /\ UNCHANGED tgAddFailed
       ELSE UNCHANGED <<recoveryLaunched, recovering, tgAddFailed>>
    /\ pc' = [pc EXCEPT ![w] = "remove"]
    /\ acct' = [acct EXCEPT ![w] = w]
    /\ UNCHANGED <<workersRemaining, pieceUsage, workersStandby, failed,
                   recoveryComplete, memoryReleased, staticChunkMap, staticOverdrive,
                   workerVars,
                   target, toDistribute, removedChunks, removedFor, queuedInto,
                   completeChan, err, chunkFetchLength, codeMinPieces>>
    /\ UNCHANGED <<uploadVars, latchVars, requestVars, repairVars, callVars>>

\* The same critical section for the counters alone, on a chunk of any
\* erasure code: piecesCompleted and download.atomicDataReceived. At most
\* MaxOverdrive pieces complete beyond the code's MinPieces.
managedDownloadCounted ==
    /\ piecesCompleted < codeMinPieces + MaxOverdrive
    /\ piecesCompleted' = piecesCompleted + 1
    /\ atomicDataReceived' = atomicDataReceived
            + receivedOnCompletion(piecesCompleted', codeMinPieces, chunkFetchLength)
    /\ UNCHANGED <<piecesRegistered, workersRemaining, pieceUsage, completedPieces,
                   workersStandby, failed, recoveryComplete, memoryReleased,
                   staticChunkMap, staticOverdrive, workerVars, threadVars, histVars,
                   completeChan, err, chunkFetchLength, codeMinPieces>>
    /\ UNCHANGED <<uploadVars, latchVars, requestVars, repairVars, callVars>>

(***************************************************************************)
(* Killing a worker.                                                       *)
(***************************************************************************)
managedKillDownloading(w) ==
    /\ pc[w] \in {"idle", "dead"}
    /\ removedChunks' = [removedChunks EXCEPT ![w] = removedChunksOf(downloadChunks[w])]
    /\ downloadChunks' = [downloadChunks EXCEPT ![w] = <<>>]
    /\ downloadTerminated' = [downloadTerminated EXCEPT ![w] = TRUE]
    /\ pc' = [pc EXCEPT ![w] = IF removedChunks'[w] > 0 THEN "killloop" ELSE "dead"]
    /\ UNCHANGED <<chunkVars, ownedDownloadConsecutiveFailures,
                   ownedDownloadRecentFailure, now, acct, target, toDistribute,
                   recovering, histVars, completeChan, err>>
    /\ UNCHANGED <<uploadVars, latchVars, requestVars, receivedVars, repairVars, callVars>>

\* managedKillDownloading: the loop over removedChunks, after the worker
\* lock was released.
managedKillDownloadingLoop(w) ==
    /\ pc[w] = "killloop"
    /\ removedChunks[w] > 0
    /\ removedChunks' = [removedChunks EXCEPT ![w] = @ - 1]
    /\ acct' = [acct EXCEPT ![w] = w]
    /\ pc' = [pc EXCEPT ![w] = "remove"]
    /\ UNCHANGED <<chunkVars, workerVars, target, toDistribute, recovering,
                   histVars, completeChan, err>>
    /\ UNCHANGED <<uploadVars, latchVars, requestVars, receivedVars, repairVars, callVars>>

(***************************************************************************)
(* Recovery.                                                               *)
(***************************************************************************)
\* threadedRecoverLogicalData: decode and write; the last chunk of the
\* download completes the download, an error fails it.
threadedRecoverLogicalData ==
    /\ recovering > 0
    /\ recovering' = recovering - 1
    /\ recoveryComplete' = TRUE
    /\ memoryReleased' = (memoryReleased \/ releaseDue(workersRemaining, TRUE))
    /\ \E ok \in BOOLEAN :
         IF ok
         THEN /\ completeChan' = TRUE
              /\ UNCHANGED <<err, failed>>
         ELSE /\ failed' = TRUE
              /\ managedFail(ErrChunkFailed)
    /\ UNCHANGED <<piecesRegistered, piecesCompleted, workersRemaining, pieceUsage,
                   completedPieces, workersStandby, staticChunkMap, staticOverdrive,
                   workerVars, pc, acct, target, toDistribute, removedChunks,
                   histVars>>
    /\ UNCHANGED <<uploadVars, latchVars, requestVars, receivedVars, repairVars, callVars>>

(***************************************************************************)
(* uploadHeap                                                              *)
(***************************************************************************)
ChunkIDs == 1..NumUploadChunks
NoChunk == NumUploadChunks + 1

\* The unfinished chunks that buildUnfinishedChunks makes of the files: one
\* per uploadChunkID, not yet complete (none or all but one of its pieces
\* are there), piecesNeeded being the number of pieces of the erasure code.
UnfinishedUploadChunk ==
    [stuck : BOOLEAN, piecesCompleted : {0, NumPieces - 1}, piecesNeeded : {NumPieces}]

\* float64(a.piecesCompleted)/float64(a.piecesNeeded)
\*     < float64(b.piecesCompleted)/float64(b.piecesNeeded)
ratioLess(a, b) ==
    a.piecesCompleted * b.piecesNeeded < b.piecesCompleted * a.piecesNeeded

\* uploadChunkHeap.Less on two chunks.
chunkLess(a, b) ==
    IF a.stuck /\ b.stuck THEN ratioLess(a, b)
    ELSE IF a.stuck THEN TRUE
    ELSE IF b.stuck THEN FALSE
    ELSE ratioLess(a, b)

\* uploadChunkHeap.Less(i, j), uploadChunkHeap.Swap(i, j); h[1] is uch[0].
Less(h, i, j) == chunkLess(uuc[h[i]], uuc[h[j]])
Swap(h, i, j) == [h EXCEPT ![i] = h[j], ![j] = h[i]]

\* container/heap.down(h, i0, n) with i = i0 + 1.
RECURSIVE down(_, _, _)
down(h, i, n) ==
    LET j1 == 2 * i
        j2 == j1 + 1
    IN  IF j1 > n
        THEN h
        ELSE LET j == IF j2 <= n /\ Less(h, j2, j1) THEN j2 ELSE j1
             IN  IF ~Less(h, j, i) THEN h ELSE down(Swap(h, i, j), j, n)

\* container/heap.Pop: Swap(0, n), down(0, n), then uploadChunkHeap.Pop takes
\* the last element off.
heapPop(h) ==
    LET n == Len(h) - 1
        d == down(Swap(h, 1, Len(h)), 1, n)
    IN  [chunk |-> d[Len(h)], rest |-> SubSeq(d, 1, n)]

\* uploadChunkHeap.Push, as managedPush calls it: append.
heapPush(h, id) == Append(h, id)

pushAccepted_RepairingOnly(id) == id \notin repairingChunks

\* managedPush: !exists1 && !exists2
pushAccepted(id) == id \notin heapChunks /\ id \notin repairingChunks

RECURSIVE SumOver(_, _)
SumOver(f, S) ==
    IF S = {} THEN 0
    ELSE LET x == CHOOSE y \in S : TRUE IN f[x] + SumOver(f, S \ {x})

\* Chunks whose memory the memory manager has handed out.
memoryInUse == SumOver(fetching, ChunkIDs) + SumOver(distributed, ChunkIDs)

\* managedPush under uh.mu.
pushChunk(id) ==
    /\ IF pushAccepted(id)
       THEN /\ heapChunks' = heapChunks \cup {id}
            /\ heap' = heapPush(heap, id)
            /\ rejectedPush' = NoChunk
       ELSE /\ rejectedPush' = id
            /\ UNCHANGED <<heap, heapChunks>>

\* buildUnfinishedChunks: the stuck loop builds stuck chunks only, the
\* upload loop chunks that are not stuck.
targetStuckChunks == "targetStuckChunks"
targetUnstuckChunks == "targetUnstuckChunks"
chunkBuilt(id, repairTarget) == (repairTarget = targetStuckChunks) = uuc[id].stuck

\* uh.managedPush(uuc) of a chunk built by the upload loop before it enters
\* managedRepairLoop (managedBuildAndPushChunks), or by the stuck loop at
\* any time (managedBuildAndPushRandomChunk).
managedPush(id) ==
    /\ \/ pcRepair = "returned" /\ chunkBuilt(id, targetUnstuckChunks)
       \/ chunkBuilt(id, targetStuckChunks)
    /\ pushChunk(id)
    /\ UNCHANGED <<repairingChunks, uuc, pcRepair, nextChunk, consecutiveChunkRepairs,
                   stuckChunks, fetching, distributed>>
    /\ UNCHANGED <<dlVars, completeChan, err, latchVars, requestVars, receivedVars,
                   repairVars, callVars>>

\* threadedUploadLoop: the heap was built and is not empty, managedRepairLoop
\* is entered.
threadedUploadLoop ==
    /\ pcRepair = "returned"
    /\ Len(heap) > 0
    /\ pcRepair' = "pop"
    /\ consecutiveChunkRepairs' = 0
    /\ rejectedPush' = NoChunk
    /\ UNCHANGED <<heap, heapChunks, repairingChunks, uuc, nextChunk, stuckChunks,
                   fetching, distributed>>
    /\ UNCHANGED <<dlVars, completeChan, err, latchVars, requestVars, receivedVars,
                   repairVars, callVars>>

\* uh.managedPop(), called by managedRepairLoop for the next chunk ("pop":
\* nil ends the loop) and when it empties the heap ("drainPop": c.stuck of
\* nil panics).
managedPop ==
    /\ pcRepair \in {"pop", "drainPop"}
    /\ IF Len(heap) > 0
       THEN LET r == heapPop(heap) IN
            /\ heap' = r.rest
            /\ heapChunks' = heapChunks \ {r.chunk}
            /\ nextChunk' = r.chunk
            /\ pcRepair' = (IF pcRepair = "pop" THEN "chunk" ELSE "drainKeep")
       ELSE /\ pcRepair' = (IF pcRepair = "pop" THEN "returned" ELSE "panic")
            /\ UNCHANGED <<heap, heapChunks, nextChunk>>
    /\ rejectedPush' = NoChunk
    /\ UNCHANGED <<repairingChunks, uuc, consecutiveChunkRepairs, stuckChunks,
                   fetching, distributed>>
    /\ UNCHANGED <<dlVars, completeChan, err, latchVars, requestVars, receivedVars,
                   repairVars, callVars>>

\* The health of a file, in tenths; managedRepairLoop compares it with 0.8.
healthThreshold == 8
Healths == {healthThreshold - 1, healthThreshold}
NoHealth == -1
NoCount == -1

\* if health < 0.8 { nextChunk.fileEntry.UpdateRecentRepairTime() }
repairTimeDue_AtLeast(h) == h >= healthThreshold

repairTimeDue(h) == h < healthThreshold

\* if availableWorkers < nextChunk.minimumPieces
tooFewWorkers_Never(available, minimumPieces) == FALSE

tooFewWorkers(available, minimumPieces) == available < minimumPieces

\* managedPrepareNextChunk: memoryManager.Request(uuc.memoryNeeded,
\* memoryPriorityLow) is granted when the memory is there, and refused when
\* the renter stops; with the memory, threadedFetchAndRepairChunk is started.
requestMemory_Unasked(granted) ==
    fetching' = [fetching EXCEPT ![nextChunk] = @ + 1]

requestMemory(granted) ==
    IF granted
    THEN /\ memoryInUse < UploadMemory
         /\ fetching' = [fetching EXCEPT ![nextChunk] = @ + 1]
    ELSE UNCHANGED fetching

\* consecutiveChunkRepairs++ and its test, after managedPrepareNextChunk.
countRepair ==
    /\ consecutiveChunkRepairs' = consecutiveChunkRepairs + 1
    /\ pcRepair' = (IF consecutiveChunkRepairs' >= maxConsecutiveChunkRepairs
                    THEN "drain" ELSE "pop")

\* The locals of managedRepairLoop go out of scope with the iteration.
endIteration ==
    /\ health' = NoHealth
    /\ availableWorkers' = NoCount
    /\ updatedRecentRepairTime' = FALSE

\* managedRepairLoop as the upload heap and the memory see one iteration,
\* from the chunk popped to the continue: fewer workers than minimumPieces
\* were there (the chunk is set stuck in its file: SpecRepairLoop).
managedRepairLoopSkip ==
    /\ pcRepair = "chunk"
    /\ \E available \in 0..NumWorkers : tooFewWorkers(available, MinPieces)
    /\ nextChunk' = NoChunk
    /\ pcRepair' = "pop"
    /\ rejectedPush' = NoChunk
    /\ UNCHANGED <<heap, heapChunks, repairingChunks, uuc, consecutiveChunkRepairs,
                   stuckChunks, fetching, distributed>>
    /\ UNCHANGED repairVars
    /\ UNCHANGED <<dlVars, completeChan, err, latchVars, requestVars,
                   receivedVars, callVars>>

\* managedRepairLoop as the upload heap and the memory see one iteration,
\* from the chunk popped to the test of consecutiveChunkRepairs: workers
\* enough were there, managedPrepareNextChunk.
managedPrepareNextChunk ==
    /\ pcRepair = "chunk"
    /\ \E available \in 0..NumWorkers : ~tooFewWorkers(available, MinPieces)
    /\ \E granted \in BOOLEAN : requestMemory(granted)
    /\ nextChunk' = NoChunk
    /\ countRepair
    /\ rejectedPush' = NoChunk
    /\ UNCHANGED <<heap, heapChunks, repairingChunks, uuc, stuckChunks, distributed>>
    /\ UNCHANGED repairVars
    /\ UNCHANGED <<dlVars, completeChan, err, latchVars, requestVars,
                   receivedVars, callVars>>

\* The iteration step by step, with what it reads and writes in the file of
\* the chunk. The cached health of the file of the
\* chunk popped is read, and the recent repair time of the file is updated
\* when the health is below 0.8.
managedRepairLoopHealth ==
    /\ pcRepair = "chunk"
    /\ \E h \in Healths :
         /\ health' = h
         /\ updatedRecentRepairTime' = repairTimeDue(h)
    /\ pcRepair' = "workers"
    /\ rejectedPush' = NoChunk
    /\ UNCHANGED <<heap, heapChunks, repairingChunks, uuc, nextChunk,
                   consecutiveChunkRepairs, stuckChunks, fetching, distributed>>
    /\ UNCHANGED <<availableWorkers, fileStuck>>
    /\ UNCHANGED <<dlVars, completeChan, err, latchVars, requestVars,
                   receivedVars, callVars>>

\* availableWorkers := len(r.workerPool) under r.mu; the pool is what the
\* last managedUpdateWorkerPool of any thread left.
managedRepairLoopWorkers ==
    /\ pcRepair = "workers"
    /\ availableWorkers' \in 0..NumWorkers
    /\ pcRepair' = "checked"
    /\ rejectedPush' = NoChunk
    /\ UNCHANGED <<heap, heapChunks, repairingChunks, uuc, nextChunk,
                   consecutiveChunkRepairs, stuckChunks, fetching, distributed>>
    /\ UNCHANGED <<health, updatedRecentRepairTime, fileStuck>>
    /\ UNCHANGED <<dlVars, completeChan, err, latchVars, requestVars,
                   receivedVars, callVars>>

\* nextChunk.fileEntry.SetStuck(nextChunk.index, true); continue
managedRepairLoopSetStuck ==
    /\ pcRepair = "checked"
    /\ tooFewWorkers(availableWorkers, MinPieces)
    /\ fileStuck' = fileStuck \cup {nextChunk}
    /\ nextChunk' = NoChunk
    /\ pcRepair' = "pop"
    /\ rejectedPush' = NoChunk
    /\ endIteration
    /\ UNCHANGED <<heap, heapChunks, repairingChunks, uuc, consecutiveChunkRepairs,
                   stuckChunks, fetching, distributed>>
    /\ UNCHANGED <<dlVars, completeChan, err, latchVars, requestVars,
                   receivedVars, callVars>>

\* r.managedPrepareNextChunk(nextChunk, hosts); consecutiveChunkRepairs++
managedRepairLoopPrepare ==
    /\ pcRepair = "checked"
    /\ ~tooFewWorkers(availableWorkers, MinPieces)
    /\ \E granted \in BOOLEAN : requestMemory(granted)
    /\ nextChunk' = NoChunk
    /\ countRepair
    /\ rejectedPush' = NoChunk
    /\ endIteration
    /\ UNCHANGED fileStuck
    /\ UNCHANGED <<heap, heapChunks, repairingChunks, uuc, stuckChunks, distributed>>
    /\ UNCHANGED <<dlVars, completeChan, err, latchVars, requestVars,
                   receivedVars, callVars>>

\* managedRepairLoop: for r.uploadHeap.managedLen() > 0
managedLen ==
    /\ pcRepair = "drain"
    /\ pcRepair' = (IF Len(heap) > 0 THEN "drainPop" ELSE "repush")
    /\ rejectedPush' = NoChunk
    /\ UNCHANGED <<heap, heapChunks, repairingChunks, uuc, nextChunk,
                   consecutiveChunkRepairs, stuckChunks, fetching, distributed>>
    /\ UNCHANGED <<dlVars, completeChan, err, latchVars, requestVars, receivedVars,
                   repairVars, callVars>>

\* managedRepairLoop: if c.stuck { stuckChunks = append(stuckChunks, c) }
managedRepairLoopKeepStuck ==
    /\ pcRepair = "drainKeep"
    /\ IF uuc[nextChunk].stuck
       THEN /\ Len(stuckChunks) < MaxStuckChunks
            /\ stuckChunks' = Append(stuckChunks, nextChunk)
       ELSE UNCHANGED stuckChunks
    /\ nextChunk' = NoChunk
    /\ pcRepair' = "drain"
    /\ rejectedPush' = NoChunk
    /\ UNCHANGED <<heap, heapChunks, repairingChunks, uuc, consecutiveChunkRepairs,
                   fetching, distributed>>
    /\ UNCHANGED <<dlVars, completeChan, err, latchVars, requestVars, receivedVars,
                   repairVars, callVars>>

\* managedRepairLoop: for _, sc := range stuckChunks { managedPush(sc) },
\* then return.
managedRepairLoopRepush ==
    /\ pcRepair = "repush"
    /\ IF stuckChunks = <<>>
       THEN /\ pcRepair' = "returned"
            /\ rejectedPush' = NoChunk
            /\ UNCHANGED <<heap, heapChunks, stuckChunks>>
       ELSE /\ pushChunk(Head(stuckChunks))
            /\ stuckChunks' = Tail(stuckChunks)
            /\ UNCHANGED pcRepair
    /\ UNCHANGED <<repairingChunks, uuc, nextChunk, consecutiveChunkRepairs,
                   fetching, distributed>>
    /\ UNCHANGED <<dlVars, completeChan, err, latchVars, requestVars, receivedVars,
                   repairVars, callVars>>

\* threadedFetchAndRepairChunk: the logical data is fetched and the chunk is
\* distributed to the workers, its id entering repairingChunks first; when
\* the fetch fails the chunk is cleaned up at once.
threadedFetchAndRepairChunk(id) ==
    /\ fetching[id] > 0
    /\ fetching' = [fetching EXCEPT ![id] = @ - 1]
    /\ \E fetched \in BOOLEAN :
         IF fetched
         THEN /\ repairingChunks' = repairingChunks \cup {id}
              /\ distributed' = [distributed EXCEPT ![id] = @ + 1]
         ELSE UNCHANGED <<repairingChunks, distributed>>
    /\ rejectedPush' = NoChunk
    /\ UNCHANGED <<heap, heapChunks, uuc, pcRepair, nextChunk, consecutiveChunkRepairs,
                   stuckChunks>>
    /\ UNCHANGED <<dlVars, completeChan, err, latchVars, requestVars, receivedVars,
                   repairVars, callVars>>

\* managedCleanUpUploadChunk: the last worker is through with the chunk, its
\* id leaves repairingChunks and its memory is returned.
managedCleanUpUploadChunk(id) ==
    /\ distributed[id] > 0
    /\ distributed' = [distributed EXCEPT ![id] = @ - 1]
    /\ repairingChunks' = repairingChunks \ {id}
    /\ rejectedPush' = NoChunk
    /\ UNCHANGED <<heap, heapChunks, uuc, pcRepair, nextChunk, consecutiveChunkRepairs,
                   stuckChunks, fetching>>
    /\ UNCHANGED <<dlVars, completeChan, err, latchVars, requestVars, receivedVars,
                   repairVars, callVars>>

(***************************************************************************)
(* download: downloadCompleteFuncs, markComplete, onComplete               *)
(***************************************************************************)
Funcs == {"endTime", "closer", "async"}

\* The threads that complete the download: one per chunk (the chunk fails
\* or is recovered) and the caller of the cancel function.
DownloadChunks == 1..NumDownloadChunks
Canceller == NumDownloadChunks + 1
Completers == DownloadChunks \cup {Canceller}
NoHolder == NumDownloadChunks + 2

RECURSIVE runFuncs(_, _)
\* markComplete: for _, f := range d.downloadCompleteFuncs { f(d.err) }
runFuncs(funcs, done) ==
    IF funcs = <<>> THEN done
    ELSE runFuncs(Tail(funcs), [done EXCEPT ![Head(funcs)] = @ + 1])

\* onComplete: case <-d.completeChan
closedBeforeAppend(closed) == closed

\* d.onComplete(f) with d.mu held, or before the download is shared.
onCompleteLocked(f) ==
    IF closedBeforeAppend(completeChan)
    THEN /\ executed' = [executed EXCEPT ![f] = @ + 1]
         /\ executionOrder' = Append(executionOrder, f)
         /\ UNCHANGED downloadCompleteFuncs
    ELSE /\ downloadCompleteFuncs' = Append(downloadCompleteFuncs, f)
         /\ UNCHANGED <<executed, executionOrder>>

chunksToDownload_One(minChunk, maxChunk) == 1

\* managedNewDownload: d.chunksRemaining += maxChunk - minChunk + 1
chunksToDownload(minChunk, maxChunk) == maxChunk - minChunk + 1

\* managedNewDownload: the endTime function is registered; a download of
\* length 0 is marked complete at once, else its chunks go to the download
\* heap.
managedNewDownload ==
    /\ pcApi = "new"
    /\ \E empty \in BOOLEAN :
         IF empty
         THEN /\ executed' = [executed EXCEPT !["endTime"] = @ + 1]
              /\ executionOrder' = Append(executionOrder, "endTime")
              /\ downloadCompleteFuncs' = <<>>
              /\ completeChan' = TRUE
              /\ chunksRemaining' = 0
              /\ pcComplete' = [t \in Completers |->
                                  IF t = Canceller THEN "idle" ELSE "none"]
         ELSE /\ downloadCompleteFuncs' = <<"endTime">>
              /\ chunksRemaining' = chunksToDownload(1, NumDownloadChunks)
              /\ UNCHANGED <<executed, executionOrder, completeChan, pcComplete>>
    /\ registeredFuncs' = registeredFuncs \cup {"endTime"}
    /\ registrationOrder' = Append(registrationOrder, "endTime")
    /\ pcApi' = "managedDownload"
    /\ UNCHANGED <<mu, appendBase, err>>
    /\ UNCHANGED <<dlVars, uploadVars, requestVars, receivedVars, repairVars, callVars>>

\* managedDownload: d.OnComplete(closer), under d.mu.
OnComplete ==
    /\ pcApi = "managedDownload"
    /\ mu = NoHolder
    /\ onCompleteLocked("closer")
    /\ registeredFuncs' = registeredFuncs \cup {"closer"}
    /\ registrationOrder' = Append(registrationOrder, "closer")
    /\ pcApi' = "DownloadAsync"
    /\ UNCHANGED <<mu, chunksRemaining, appendBase, pcComplete, completeChan, err>>
    /\ UNCHANGED <<dlVars, uploadVars, requestVars, receivedVars, repairVars, callVars>>

\* DownloadAsync: d.onComplete(f) without d.mu; the select on completeChan.
onCompleteSelect ==
    /\ pcApi = "DownloadAsync"
    /\ \E given \in BOOLEAN :
         IF ~given
         THEN \* f == nil
              /\ pcApi' = "returned"
              /\ UNCHANGED <<executed, registeredFuncs, registrationOrder,
                             executionOrder>>
         ELSE IF closedBeforeAppend(completeChan)
              THEN /\ executed' = [executed EXCEPT !["async"] = @ + 1]
                   /\ executionOrder' = Append(executionOrder, "async")
                   /\ registeredFuncs' = registeredFuncs \cup {"async"}
                   /\ registrationOrder' = Append(registrationOrder, "async")
                   /\ pcApi' = "returned"
              ELSE /\ pcApi' = "appendRead"
                   /\ UNCHANGED <<executed, registeredFuncs, registrationOrder,
                                  executionOrder>>
    /\ UNCHANGED <<downloadCompleteFuncs, mu, chunksRemaining, appendBase,
                   pcComplete, completeChan, err>>
    /\ UNCHANGED <<dlVars, uploadVars, requestVars, receivedVars, repairVars, callVars>>

\* DownloadAsync: append(d.downloadCompleteFuncs, f) reads the slice ...
onCompleteAppendRead ==
    /\ pcApi = "appendRead"
    /\ appendBase' = downloadCompleteFuncs
    /\ pcApi' = "appendWrite"
    /\ UNCHANGED <<downloadCompleteFuncs, executed, registeredFuncs, mu, chunksRemaining,
                   pcComplete, completeChan, err, registrationOrder, executionOrder>>
    /\ UNCHANGED <<dlVars, uploadVars, requestVars, receivedVars, repairVars, callVars>>

\* ... and d.downloadCompleteFuncs = is the write of the result.
onCompleteAppendWrite ==
    /\ pcApi = "appendWrite"
    /\ downloadCompleteFuncs' = Append(appendBase, "async")
    /\ appendBase' = <<>>
    /\ registeredFuncs' = registeredFuncs \cup {"async"}
    /\ registrationOrder' = Append(registrationOrder, "async")
    /\ pcApi' = "returned"
    /\ UNCHANGED <<executed, executionOrder, mu, chunksRemaining, pcComplete,
                   completeChan, err>>
    /\ UNCHANGED <<dlVars, uploadVars, requestVars, receivedVars, repairVars, callVars>>

\* managedDownload of a worker: the chunk has MinPieces pieces,
\* go udc.threadedRecoverLogicalData().
launchRecovery(t) ==
    /\ t \in DownloadChunks
    /\ pcComplete[t] = "idle"
    /\ pcApi # "new"
    /\ pcComplete' = [pcComplete EXCEPT ![t] = "recovering"]
    /\ UNCHANGED <<downloadCompleteFuncs, executed, registeredFuncs, mu, chunksRemaining,
                   pcApi, appendBase, completeChan, err, registrationOrder,
                   executionOrder>>
    /\ UNCHANGED <<dlVars, uploadVars, requestVars, receivedVars, repairVars, callVars>>

failIgnored_Never(complete) == FALSE

\* managedFail: the download is already complete, return.
failIgnored(complete) == complete

\* managedFail up to the call of markComplete: a chunk of the download failed
\* (ErrChunkFailed: too few workers are left, or the recovery failed), or
\* the cancel function that DownloadAsync returned is called (managedCancel).
managedFailLock(t) ==
    /\ pcComplete[t] \in (IF t = Canceller THEN {"idle"} ELSE {"idle", "recovering"})
    /\ IF t = Canceller THEN pcApi = "returned" ELSE pcApi # "new"
    /\ mu = NoHolder
    /\ IF failIgnored(completeChan)
       THEN /\ pcComplete' = [pcComplete EXCEPT ![t] = "done"]
            /\ UNCHANGED <<mu, err>>
       ELSE /\ err' = (IF t = Canceller THEN ErrDownloadCancelled ELSE ErrChunkFailed)
            /\ mu' = t
            /\ pcComplete' = [pcComplete EXCEPT ![t] = "funcs"]
    /\ UNCHANGED <<downloadCompleteFuncs, executed, registeredFuncs, chunksRemaining,
                   pcApi, appendBase, completeChan, registrationOrder, executionOrder>>
    /\ UNCHANGED <<dlVars, uploadVars, requestVars, receivedVars, repairVars, callVars>>

\* threadedRecoverLogicalData: the chunk is written; the last chunk marks the
\* download complete.
chunkRecovered(t) ==
    /\ t \in DownloadChunks
    /\ pcComplete[t] = "recovering"
    /\ pcApi # "new"
    /\ mu = NoHolder
    /\ chunksRemaining' = chunksRemaining - 1
    /\ IF chunksRemaining' = 0 /\ ~completeChan
       THEN /\ mu' = t
            /\ pcComplete' = [pcComplete EXCEPT ![t] = "funcs"]
       ELSE /\ pcComplete' = [pcComplete EXCEPT ![t] = "done"]
            /\ UNCHANGED mu
    /\ UNCHANGED <<downloadCompleteFuncs, executed, registeredFuncs, pcApi, appendBase,
                   completeChan, err, registrationOrder, executionOrder>>
    /\ UNCHANGED <<dlVars, uploadVars, requestVars, receivedVars, repairVars, callVars>>

\* markComplete: the functions are run ...
markCompleteFuncs(t) ==
    /\ pcComplete[t] = "funcs"
    /\ executed' = runFuncs(downloadCompleteFuncs, executed)
    /\ executionOrder' = executionOrder \o downloadCompleteFuncs
    /\ pcComplete' = [pcComplete EXCEPT ![t] = "nil"]
    /\ UNCHANGED <<downloadCompleteFuncs, registeredFuncs, mu, chunksRemaining, pcApi,
                   appendBase, completeChan, err, registrationOrder>>
    /\ UNCHANGED <<dlVars, uploadVars, requestVars, receivedVars, repairVars, callVars>>

\* ... d.downloadCompleteFuncs = nil ...
markCompleteNil(t) ==
    /\ pcComplete[t] = "nil"
    /\ downloadCompleteFuncs' = <<>>
    /\ pcComplete' = [pcComplete EXCEPT ![t] = "close"]
    /\ UNCHANGED <<executed, registeredFuncs, mu, chunksRemaining, pcApi, appendBase,
                   completeChan, err, registrationOrder, executionOrder>>
    /\ UNCHANGED <<dlVars, uploadVars, requestVars, receivedVars, repairVars, callVars>>

\* ... and the deferred close(d.completeChan); d.mu is released.
markCompleteClose(t) ==
    /\ pcComplete[t] = "close"
    /\ completeChan' = TRUE
    /\ mu' = NoHolder
    /\ pcComplete' = [pcComplete EXCEPT ![t] = "done"]
    /\ UNCHANGED <<downloadCompleteFuncs, executed, registeredFuncs, chunksRemaining,
                   pcApi, appendBase, err, registrationOrder, executionOrder>>
    /\ UNCHANGED <<dlVars, uploadVars, requestVars, receivedVars, repairVars, callVars>>

(***************************************************************************)
(* One download request (node/api/renter.go, download.go, snapshot.go).    *)
(* offset, length, the sizes and the chunk indices are uint64: the         *)
(* arithmetic on them is modulo 2^WordBits.                                *)
(***************************************************************************)
WordLimit == 2 ^ WordBits
Word == 0..(WordLimit - 1)
wordAdd(a, b) == (a + b) % WordLimit
wordSub(a, b) == (a + WordLimit - b) % WordLimit

NoParams == [Offset |-> -1, Length |-> -1]

\* fmt.Sscan into a uint64: a text that is not the decimal of a uint64 (a
\* negative number) is an error.
scanUint64(param) == IF param \in Word THEN param ELSE -1

\* Snapshot.ChunkSize, Snapshot.Size, Snapshot.NumChunks of the file named.
ChunkSize == wordAdd(pieceSize * MinPieces, 0)
Size == fileSize
NumChunks == numChunks

\* The number of chunks the file metadata store keeps for a file of a size.
chunksOfFile(size, chunkSize) == (size + chunkSize - 1) \div chunkSize

ChunkIndexByOffset(offset) ==
    [chunkIndex |-> offset \div ChunkSize, off |-> offset % ChunkSize]

\* if maxChunk > 0 && maxChunkOffset == 0 { maxChunk-- }
lastChunk_NoDecrement(maxChunk, maxChunkOffset) == maxChunk

lastChunk(maxChunk, maxChunkOffset) ==
    IF maxChunk > 0 /\ maxChunkOffset = 0 THEN maxChunk - 1 ELSE maxChunk

\* The validation of managedDownload; p.Length = 0 stands for the rest of
\* the file. The result is the error, or the parameters handed on.
validateDownload(p) ==
    IF ~fileExists THEN [err |-> "no file", p |-> NoParams]
    ELSE IF p.Offset = Size /\ Size # 0
    THEN [err |-> "offset equals filesize", p |-> NoParams]
    ELSE IF p.Length = 0 /\ p.Offset > Size
    THEN [err |-> "offset cannot be greater than file size", p |-> NoParams]
    ELSE LET q == IF p.Length = 0
                  THEN [p EXCEPT !.Length = wordSub(Size, p.Offset)]
                  ELSE p
         IN  IF q.Offset < 0 \/ wordAdd(q.Offset, q.Length) > Size
             THEN [err |-> "offset and length combination invalid", p |-> NoParams]
             ELSE [err |-> NoError, p |-> q]

\* The unfinishedDownloadChunk that managedNewDownload builds for chunk i.
staticFetchOffset(i, minChunk, minChunkOffset) ==
    IF i = minChunk THEN minChunkOffset ELSE 0

staticFetchLength(i, minChunk, minChunkOffset, maxChunk, maxChunkOffset) ==
    IF i = maxChunk /\ maxChunkOffset # 0
    THEN wordSub(maxChunkOffset, staticFetchOffset(i, minChunk, minChunkOffset))
    ELSE wordSub(ChunkSize, staticFetchOffset(i, minChunk, minChunkOffset))

RECURSIVE staticWriteOffset(_, _, _, _, _)
staticWriteOffset(i, minChunk, minChunkOffset, maxChunk, maxChunkOffset) ==
    IF i = minChunk THEN 0
    ELSE wordAdd(staticWriteOffset(i - 1, minChunk, minChunkOffset, maxChunk,
                                   maxChunkOffset),
                 staticFetchLength(i - 1, minChunk, minChunkOffset, maxChunk,
                                   maxChunkOffset))

\* What managedNewDownload does with the parameters: the error it returns
\* ("panic" when make() is called with a length out of range), the download
\* it creates and the chunks it adds to the download heap, in order.
planDownload(p) ==
    LET min == ChunkIndexByOffset(p.Offset)
        max == ChunkIndexByOffset(wordAdd(p.Offset, p.Length))
        minChunk == min.chunkIndex
        maxChunk == lastChunk(max.chunkIndex, max.off)
        count == wordSub(wordAdd(maxChunk, 1), minChunk)
        d == [staticOffset |-> p.Offset, staticLength |-> p.Length]
        none == [staticOffset |-> -1, staticLength |-> -1]
    IN  IF p.Length < 0 \/ p.Offset < 0 \/ wordAdd(p.Offset, p.Length) > Size
        THEN [err |-> "past the boundary of the file", download |-> none,
              complete |-> FALSE, chunks |-> <<>>]
        ELSE IF p.Length = 0
        THEN [err |-> NoError, download |-> d, complete |-> TRUE, chunks |-> <<>>]
        ELSE IF minChunk = NumChunks \/ maxChunk = NumChunks
        THEN [err |-> "chunk past the boundary of the file", download |-> none,
              complete |-> FALSE, chunks |-> <<>>]
        ELSE IF minChunk > maxChunk /\ count # 0
        THEN [err |-> "panic", download |-> none, complete |-> FALSE,
              chunks |-> <<>>]
        ELSE [err |-> NoError, download |-> d, complete |-> FALSE,
              chunks |-> [k \in 1..count |->
                  LET i == minChunk + k - 1
                  IN  [staticChunkIndex |-> i,
                       staticFetchOffset |->
                           staticFetchOffset(i, minChunk, min.off),
                       staticFetchLength |->
                           staticFetchLength(i, minChunk, min.off, maxChunk, max.off),
                       staticWriteOffset |->
                           staticWriteOffset(i, minChunk, min.off, maxChunk,
                                             max.off)]]]

\* parseDownloadParameters: the offset and the length are scanned as uint64;
\* the handler answers with the error when one of them does not scan.
parseDownloadParameters ==
    /\ pcRequest = "parse"
    /\ IF scanUint64(offsetparam) < 0 \/ scanUint64(lengthparam) < 0
       THEN /\ response' = "error"
            /\ pcRequest' = "done"
            /\ UNCHANGED params
       ELSE /\ params' = [Offset |-> scanUint64(offsetparam),
                          Length |-> scanUint64(lengthparam)]
            /\ pcRequest' = "download"
            /\ UNCHANGED response
    /\ UNCHANGED <<fileExists, fileSize, pieceSize, numChunks, offsetparam,
                   lengthparam, destination, downloadHistory, downloadHeap>>
    /\ UNCHANGED <<dlVars, completeChan, err, uploadVars, latchVars, receivedVars,
                   repairVars, callVars>>

\* Renter.managedDownload: the validation, the destination, the download
\* and its chunks (managedNewDownload), the download history.
managedDownload ==
    /\ pcRequest = "download"
    /\ pcRequest' = "done"
    /\ LET v == validateDownload(params)
           plan == planDownload(v.p)
       IN  IF v.err # NoError
           THEN /\ response' = "error"
                /\ UNCHANGED <<params, destination, downloadHistory, downloadHeap>>
           ELSE /\ params' = v.p
                /\ IF plan.err = "panic"
                   THEN /\ response' = "panic"
                        /\ destination' = "open"
                        /\ UNCHANGED <<downloadHistory, downloadHeap>>
                   ELSE IF plan.err # NoError
                   THEN /\ response' = "error"
                        /\ destination' = "closed"
                        /\ UNCHANGED <<downloadHistory, downloadHeap>>
                   ELSE /\ response' = "ok"
                        /\ destination' = (IF plan.complete THEN "closed" ELSE "open")
                        /\ downloadHistory' = Append(downloadHistory, plan.download)
                        /\ downloadHeap' = downloadHeap \o plan.chunks
    /\ UNCHANGED <<fileExists, fileSize, pieceSize, numChunks, offsetparam,
                   lengthparam>>
    /\ UNCHANGED <<dlVars, completeChan, err, uploadVars, latchVars, receivedVars,
                   repairVars, callVars>>

(***************************************************************************)
(* buildUnfinishedChunks: the unfinished upload chunks of one file.        *)
(* The file has one entry per chunk; a chunk is known by its index, which  *)
(* counts from 0. The caller holds the lock of the renter during the call; *)
(* the call is split at its loops so that the pieces of each chunk are     *)
(* read on their own.                                                      *)
(***************************************************************************)
NumHosts == 2
Hosts == 1..NumHosts

NoBuild == [pcBuild |-> "idle"]
NoCall == [pcCall |-> "idle"]

\* The sets of pieces of one chunk, one set per piece index. A set holds at
\* most one piece; the same host may hold pieces of several indexes.
PieceSets == {<<>>} \cup {<<h>> : h \in Hosts}
ChunkPieces == [1..NumPieces -> PieceSets]

notEnoughWorkers_Below(pool, minPieces) == pool + 1 < minPieces

\* len(r.workerPool) < entrys[0].ErasureCode().MinPieces()
notEnoughWorkers(pool, minPieces) == pool < minPieces

targeted_Any(repairTarget, stuck) == TRUE

\* The chunk is one the repair target asks for.
targeted(repairTarget, stuck) == (repairTarget = targetStuckChunks) = stuck

\* siafile.MarkAllChunksAsStuck
MarkAllChunksAsStuck(stuck) == [i \in DOMAIN stuck |-> TRUE]

\* The indexes gathered from entry i on.
RECURSIVE chunkIndexesFrom(_, _, _)
chunkIndexesFrom(stuck, repairTarget, i) ==
    IF i >= Len(stuck) THEN <<>>
    ELSE (IF targeted(repairTarget, stuck[i + 1]) THEN <<i>> ELSE <<>>)
         \o chunkIndexesFrom(stuck, repairTarget, i + 1)

\* The entries closed while the indexes are gathered.
unneededEntrys(stuck, repairTarget) ==
    {i \in 0..(Len(stuck) - 1) : ~targeted(repairTarget, stuck[i + 1])}

\* newUnfinishedChunks[i] as created for chunkIndexes[i].
newUnfinishedChunk(i, index, stuck) ==
    [fileEntry |-> i, index |-> index, stuck |-> stuck[index + 1],
     piecesCompleted |-> 0]

\* The pieces of one piece index. st holds the unused hosts of the chunk,
\* the piece usage of the index and the pieces completed of the chunk.
RECURSIVE markPieceSet(_, _, _)
markPieceSet(pieceSet, goodForRenew, st) ==
    IF pieceSet = <<>> THEN st
    ELSE LET pk == Head(pieceSet)
             marked ==
                 IF pk \notin goodForRenew THEN st
                 ELSE IF pk \in st.unusedHosts /\ ~st.pieceUsage
                 THEN [unusedHosts |-> st.unusedHosts \ {pk},
                       pieceUsage |-> TRUE,
                       piecesCompleted |-> st.piecesCompleted + 1]
                 ELSE IF pk \in st.unusedHosts
                 THEN [st EXCEPT !.unusedHosts = @ \ {pk}]
                 ELSE st
         IN markPieceSet(Tail(pieceSet), goodForRenew, marked)

\* piecesCompleted of a chunk with these pieces, from piece index pieceIdx
\* on (which counts from 1 here).
RECURSIVE markPieces(_, _, _, _, _)
markPieces(pieces, pieceIdx, goodForRenew, unusedHosts, completed) ==
    IF pieceIdx > Len(pieces) THEN completed
    ELSE LET st == markPieceSet(pieces[pieceIdx], goodForRenew,
                                [unusedHosts |-> unusedHosts,
                                 pieceUsage |-> FALSE,
                                 piecesCompleted |-> completed])
         IN markPieces(pieces, pieceIdx + 1, goodForRenew, st.unusedHosts,
                       st.piecesCompleted)

\* The chunks that are not complete, in their order.
incompleteChunks(chunks) ==
    SelectSeq(chunks, LAMBDA c : c.piecesCompleted < NumPieces)

\* The entries of the chunks that are complete.
completedEntrys(chunks) ==
    {chunks[k].fileEntry : k \in {j \in DOMAIN chunks :
                                     chunks[j].piecesCompleted >= NumPieces}}

\* The call up to the loop over the pieces: the checks of the entries and of
\* the workers, the indexes gathered and the chunks created.
buildUnfinishedChunksAssemble ==
    /\ build.pcBuild = "call"
    /\ LET n == Len(build.stuck)
           indexes == chunkIndexesFrom(build.stuck, build.repairTarget, 0)
       IN IF n = 0
          THEN build' = [build EXCEPT !.pcBuild = "returned"]
          ELSE IF notEnoughWorkers(build.workerPool, MinPieces)
          THEN build' = [build EXCEPT !.stuck = MarkAllChunksAsStuck(@),
                                      !.closed = 0..(n - 1),
                                      !.pcBuild = "returned"]
          ELSE IF indexes = <<>>
          THEN build' = [build EXCEPT
                           !.closed = unneededEntrys(build.stuck, build.repairTarget),
                           !.pcBuild = "returned"]
          ELSE build' = [build EXCEPT
                           !.closed = unneededEntrys(build.stuck, build.repairTarget),
                           !.chunkIndexes = indexes,
                           !.newUnfinishedChunks =
                               [i \in 1..Len(indexes) |->
                                  newUnfinishedChunk(i - 1, indexes[i], build.stuck)],
                           !.i = 0,
                           !.pcBuild = "pieces"]
    /\ UNCHANGED <<dlVars, completeChan, err, uploadVars, latchVars, requestVars,
                   receivedVars, repairVars, clearing, lk, call>>

\* One round of the loop over the pieces: the pieces of chunkIndexes[i] are
\* read from the file and counted.
buildUnfinishedChunksPieces ==
    /\ build.pcBuild = "pieces"
    /\ build.i < Len(build.chunkIndexes)
    /\ \E pieces \in ChunkPieces :
          build' = [build EXCEPT
                      !.newUnfinishedChunks[build.i + 1].piecesCompleted =
                          markPieces(pieces, 1, build.goodForRenew, build.hosts, 0),
                      !.i = @ + 1]
    /\ UNCHANGED <<dlVars, completeChan, err, uploadVars, latchVars, requestVars,
                   receivedVars, repairVars, clearing, lk, call>>

\* The chunks that are complete are removed, their entries closed, and the
\* others returned.
buildUnfinishedChunksReturn ==
    /\ build.pcBuild = "pieces"
    /\ build.i >= Len(build.chunkIndexes)
    /\ build' = [build EXCEPT
                   !.returned = incompleteChunks(build.newUnfinishedChunks),
                   !.closed = @ \cup completedEntrys(build.newUnfinishedChunks),
                   !.pcBuild = "returned"]
    /\ UNCHANGED <<dlVars, completeChan, err, uploadVars, latchVars, requestVars,
                   receivedVars, repairVars, clearing, lk, call>>

\* managedBuildAndPushChunks pushes every chunk returned.
managedBuildAndPushChunks ==
    /\ build.pcBuild = "returned"
    /\ build.repairTarget = targetUnstuckChunks
    /\ build' = [build EXCEPT
                   !.pushed = {build.returned[k].index : k \in DOMAIN build.returned},
                   !.pcBuild = "done"]
    /\ UNCHANGED <<dlVars, completeChan, err, uploadVars, latchVars, requestVars,
                   receivedVars, repairVars, clearing, lk, call>>

\* managedBuildAndPushRandomChunk pushes one of the chunks returned.
managedBuildAndPushRandomChunk ==
    /\ build.pcBuild = "returned"
    /\ build.repairTarget = targetStuckChunks
    /\ IF build.returned = <<>>
       THEN build' = [build EXCEPT !.pcBuild = "done"]
       ELSE \E randChunkIndex \in DOMAIN build.returned :
               build' = [build EXCEPT
                           !.pushed = {build.returned[randChunkIndex].index},
                           !.pcBuild = "done"]
    /\ UNCHANGED <<dlVars, completeChan, err, uploadVars, latchVars, requestVars,
                   receivedVars, repairVars, clearing, lk, call>>

(***************************************************************************)
(* managedBuildAndPushChunks on a list of files. A file is the number of   *)
(* unfinished chunks that buildUnfinishedChunks returns for it; the chunks *)
(* pushed are pairs of the place of the file in the list and the place of  *)
(* the chunk among the chunks returned.                                    *)
(***************************************************************************)
MaxFiles == 3
MaxUnfinished == 2

FileLists == UNION {[1..n -> 0..MaxUnfinished] : n \in 0..MaxFiles}

\* The chunks of the file at place f of the list.
unfinishedUploadChunks(files, f) == {<<f, k>> : k \in 1..files[f]}

\* if len(unfinishedUploadChunks) == 0 { return }
noChunksReturn(n) == n = 0

\* One round of for _, file := range files: the chunks of the file are built
\* under the lock of the renter; without chunks the function returns,
\* otherwise every chunk is handed to managedPush.
managedBuildAndPushChunksFile ==
    /\ build.pcBuild = "files"
    /\ build.file < Len(build.files)
    /\ LET f == build.file + 1 IN
         IF noChunksReturn(build.files[f])
         THEN build' = [build EXCEPT !.pcBuild = "pushed"]
         ELSE build' = [build EXCEPT
                          !.pushed = @ \cup unfinishedUploadChunks(build.files, f),
                          !.file = f]
    /\ UNCHANGED <<dlVars, completeChan, err, uploadVars, latchVars, requestVars,
                   receivedVars, repairVars, clearing, lk, call>>

\* The end of the list.
managedBuildAndPushChunksEnd ==
    /\ build.pcBuild = "files"
    /\ build.file >= Len(build.files)
    /\ build' = [build EXCEPT !.pcBuild = "pushed"]
    /\ UNCHANGED <<dlVars, completeChan, err, uploadVars, latchVars, requestVars,
                   receivedVars, repairVars, clearing, lk, call>>

(***************************************************************************)
(* segmentsForRecovery and sectorOffsetAndLength. A sector is a number of  *)
(* segments; a chunk of an erasure code with minPieces data pieces is      *)
(* minPieces sectors long, and a recovered segment minPieces segments.     *)
(***************************************************************************)
SegmentSize == 2
SectorSegments == 2
SectorSize == SectorSegments * SegmentSize

endSegment_RoundDown(end, recoveredSegmentSize) == end \div recoveredSegmentSize

\* endSegment := (chunkFetchOffset + chunkFetchLength) / recoveredSegmentSize,
\* plus one when the division leaves a remainder.
endSegment(end, recoveredSegmentSize) ==
    IF end % recoveredSegmentSize # 0
    THEN wordAdd(end \div recoveredSegmentSize, 1)
    ELSE end \div recoveredSegmentSize

\* The first segment and the number of segments to fetch of every piece.
segmentsForRecovery(fetchOffset, fetchLength, minPieces, partial) ==
    IF ~partial
    THEN [segmentIndex |-> 0, numSegments |-> SectorSize \div SegmentSize]
    ELSE LET recoveredSegmentSize == wordAdd(minPieces * SegmentSize, 0)
             startSegment == fetchOffset \div recoveredSegmentSize
             end == endSegment(wordAdd(fetchOffset, fetchLength), recoveredSegmentSize)
         IN [segmentIndex |-> startSegment,
             numSegments |-> wordSub(end, startSegment)]

\* The offset and the length within the sector.
sectorOffsetAndLength(fetchOffset, fetchLength, minPieces, partial) ==
    LET r == segmentsForRecovery(fetchOffset, fetchLength, minPieces, partial)
    IN [offset |-> wordAdd(r.segmentIndex * SegmentSize, 0),
        length |-> wordAdd(r.numSegments * SegmentSize, 0)]

\* managedDownload asks for the part of the sector to fetch.
managedDownloadSector ==
    /\ call.pcCall = "sector"
    /\ call' = [call EXCEPT
                  !.pcCall = "fetched",
                  !.segments = segmentsForRecovery(call.fetchOffset, call.fetchLength,
                                                   call.minPieces, call.partial),
                  !.sector = sectorOffsetAndLength(call.fetchOffset, call.fetchLength,
                                                   call.minPieces, call.partial)]
    /\ UNCHANGED <<dlVars, completeChan, err, uploadVars, latchVars, requestVars,
                   receivedVars, repairVars, build, clearing, lk>>

(***************************************************************************)
(* The downloads that can be cancelled through the API (api.downloads,     *)
(* node/api/renter.go). The handler of an asynchronous download, the       *)
(* completion of the download and the handler that cancels it run in       *)
(* different threads; every access to the map is under api.downloadMu.     *)
(***************************************************************************)
NumAsyncDownloads == 2
AsyncIDs == 1..NumAsyncDownloads

\* The download of the id exists: DownloadAsync has created it.
asyncStarted(id) == call.handler[id] \notin {"DownloadAsync", "failed"}

\* The completion function the handler passes to DownloadAsync:
\* delete(api.downloads, id) under api.downloadMu.
asyncCompleteFunc(downloads, id) == downloads \ {id}

\* markComplete up to d.downloadCompleteFuncs = nil.
asyncRunFuncs(id) ==
    [call EXCEPT
       !.downloads = IF call.funcs[id] THEN asyncCompleteFunc(@, id) ELSE @,
       !.funcs[id] = FALSE,
       !.mark[id] = "funcs"]

\* DownloadAsync up to the return of managedDownload: with the download its
\* chunks are in the download heap; an error is returned to the handler.
renterDownloadAsync(id) ==
    /\ call.pcCall = "api"
    /\ call.handler[id] = "DownloadAsync"
    /\ \E ok \in BOOLEAN :
          call' = [call EXCEPT !.handler[id] = IF ok THEN "onComplete" ELSE "failed"]
    /\ UNCHANGED <<dlVars, completeChan, err, uploadVars, latchVars, requestVars,
                   receivedVars, repairVars, build, clearing, lk>>

\* d.onComplete(f) in DownloadAsync, without d.mu: the select on
\* completeChan, which runs f at once when the channel is closed.
asyncOnCompleteSelect(id) ==
    /\ call.pcCall = "api"
    /\ call.handler[id] = "onComplete"
    /\ IF call.mark[id] = "closed"
       THEN call' = [call EXCEPT !.downloads = asyncCompleteFunc(@, id),
                                 !.handler[id] = "store"]
       ELSE call' = [call EXCEPT !.handler[id] = "append"]
    /\ UNCHANGED <<dlVars, completeChan, err, uploadVars, latchVars, requestVars,
                   receivedVars, repairVars, build, clearing, lk>>

\* d.downloadCompleteFuncs = append(d.downloadCompleteFuncs, f)
asyncOnCompleteAppend(id) ==
    /\ call.pcCall = "api"
    /\ call.handler[id] = "append"
    /\ call' = [call EXCEPT !.funcs[id] = TRUE, !.handler[id] = "store"]
    /\ UNCHANGED <<dlVars, completeChan, err, uploadVars, latchVars, requestVars,
                   receivedVars, repairVars, build, clearing, lk>>

\* renterDownloadHandler: api.downloads[id] = cancel, and the answer.
renterDownloadHandler(id) ==
    /\ call.pcCall = "api"
    /\ call.handler[id] = "store"
    /\ call' = [call EXCEPT !.downloads = @ \cup {id}, !.handler[id] = "returned"]
    /\ UNCHANGED <<dlVars, completeChan, err, uploadVars, latchVars, requestVars,
                   receivedVars, repairVars, build, clearing, lk>>

\* The download completes, with or without an error: markComplete runs the
\* completion functions under d.mu ...
asyncMarkComplete(id) ==
    /\ call.pcCall = "api"
    /\ asyncStarted(id)
    /\ call.mark[id] = "idle"
    /\ call' = asyncRunFuncs(id)
    /\ UNCHANGED <<dlVars, completeChan, err, uploadVars, latchVars, requestVars,
                   receivedVars, repairVars, build, clearing, lk>>

\* ... and closes completeChan.
asyncMarkCompleteClose(id) ==
    /\ call.pcCall = "api"
    /\ call.mark[id] = "funcs"
    /\ call' = [call EXCEPT !.mark[id] = "closed"]
    /\ UNCHANGED <<dlVars, completeChan, err, uploadVars, latchVars, requestVars,
                   receivedVars, repairVars, build, clearing, lk>>

\* renterCancelDownloadHandler for an id of the map: the entry is deleted
\* and cancel() fails the download unless it is complete.
renterCancelDownloadHandler(id) ==
    /\ call.pcCall = "api"
    /\ id \in call.downloads
    /\ LET deleted == [call EXCEPT !.downloads = @ \ {id}] IN
         IF call.mark[id] = "idle"
         THEN call' = [asyncRunFuncs(id) EXCEPT !.downloads = deleted.downloads]
         ELSE call' = deleted
    /\ UNCHANGED <<dlVars, completeChan, err, uploadVars, latchVars, requestVars,
                   receivedVars, repairVars, build, clearing, lk>>

(***************************************************************************)
(* The SiaFileSet. A siafile is known by its uid; the set holds at most    *)
(* one entry per uid, so that an entry is named by the uid of its file.    *)
(* entryPath is the siapath that SiaFilePath() of the entry gives, disk    *)
(* the uid of the file stored at each siapath, threadMap the number of     *)
(* threads of each entry. Every exported method runs under sfs.mu and is   *)
(* one step. New, SiaFile.Rename and SiaFile.Delete either fail and leave  *)
(* the file alone, or do what their callers expect: New stores a file with *)
(* a uid of its own at the siapath, Rename moves the file of the entry,    *)
(* Delete removes it and marks the entry as deleted.                       *)
(***************************************************************************)
NumSiaPaths == 2

MaxUIDs == 3

MaxThreads == 2

SiaPaths == 1..NumSiaPaths

SiafileUIDs == 1..MaxUIDs

NoUID == 0

siaPath(fs, uid) == fs.entryPath[uid]

siaPathToEntryAndUID(fs, p) ==
    LET uid == fs.siapathToUID[p] IN
      IF uid = NoUID
      THEN [fs |-> fs, uid |-> NoUID]
      ELSE IF uid \notin fs.siaFileMap
           THEN [fs |-> [fs EXCEPT !.siapathToUID[p] = NoUID], uid |-> NoUID]
           ELSE [fs |-> fs, uid |-> uid]

exists(fs, p) ==
    LET found == siaPathToEntryAndUID(fs, p) IN
      [fs |-> found.fs, exists |-> found.uid # NoUID \/ fs.disk[p] # NoUID]

\* The entry of the siafile uid, whose file is at siapath p.
newSiaFileSetEntry(fs, uid, p) ==
    IF uid \in fs.siaFileMap
    THEN [fs |-> fs, err |-> TRUE]
    ELSE [fs |-> [fs EXCEPT !.siaFileMap = @ \cup {uid},
                            !.siapathToUID[p] = uid,
                            !.entryPath[uid] = p,
                            !.deleted[uid] = FALSE,
                            !.threadMap[uid] = 0],
          err |-> FALSE]

\* loaded: LoadSiaFile reads the file without an error.
open(fs, p, loaded) ==
    LET found == siaPathToEntryAndUID(fs, p)
        uid == IF found.uid # NoUID THEN found.uid ELSE fs.disk[p]
        entry == IF found.uid # NoUID
                 THEN [fs |-> found.fs, err |-> FALSE]
                 ELSE IF fs.disk[p] = NoUID \/ ~loaded
                      THEN [fs |-> found.fs, err |-> TRUE]
                      ELSE newSiaFileSetEntry(found.fs, uid, p)
    IN IF entry.err
       THEN [fs |-> entry.fs, uid |-> NoUID, err |-> TRUE]
       ELSE IF entry.fs.deleted[uid]
            THEN [fs |-> entry.fs, uid |-> NoUID, err |-> TRUE]
            ELSE [fs |-> [entry.fs EXCEPT !.threadMap[uid] = @ + 1],
                  uid |-> uid, err |-> FALSE]

closeEntry(fs, uid) ==
    LET closed == [fs EXCEPT !.threadMap[uid] = @ - 1] IN
      IF uid \notin closed.siaFileMap
      THEN closed
      ELSE IF closed.threadMap[uid] = 0
           THEN [closed EXCEPT !.siaFileMap = @ \ {uid},
                               !.siapathToUID[siaPath(closed, uid)] = NoUID]
           ELSE closed

\* created: New stores the file without an error.
NewSiaFile(p, force, created) ==
    /\ call.pcCall = "fileset"
    /\ LET checked == exists(call, p)
           uid == call.nextUID
           sf == [checked.fs EXCEPT !.disk[p] = uid, !.nextUID = @ + 1]
           entry == newSiaFileSetEntry(sf, uid, p)
       IN IF (checked.exists /\ ~force) \/ ~created
          THEN call' = checked.fs
          ELSE /\ uid <= MaxUIDs
               /\ IF entry.err
                  THEN call' = entry.fs
                  ELSE call' = [entry.fs EXCEPT !.threadMap[uid] = 1]
    /\ UNCHANGED <<dlVars, completeChan, err, uploadVars, latchVars, requestVars,
                   receivedVars, repairVars, build, clearing, lk>>

Open(p, loaded) ==
    /\ call.pcCall = "fileset"
    /\ LET opened == open(call, p, loaded) IN
         /\ IF opened.err THEN TRUE
            ELSE opened.fs.threadMap[opened.uid] <= MaxThreads
         /\ call' = opened.fs
    /\ UNCHANGED <<dlVars, completeChan, err, uploadVars, latchVars, requestVars,
                   receivedVars, repairVars, build, clearing, lk>>

\* Close of one of the SiaFileSetEntry values that hold the entry of uid.
Close(uid) ==
    /\ call.pcCall = "fileset"
    /\ call.threadMap[uid] > 0
    /\ call' = closeEntry(call, uid)
    /\ UNCHANGED <<dlVars, completeChan, err, uploadVars, latchVars, requestVars,
                   receivedVars, repairVars, build, clearing, lk>>

\* renamed: entry.Rename moves the file without an error.
Rename(p, q, loaded, renamed) ==
    /\ call.pcCall = "fileset"
    /\ LET checked == exists(call, q)
           opened == open(checked.fs, p, loaded)
           uid == opened.uid
           moved == [opened.fs EXCEPT !.siapathToUID[q] = uid,
                                      !.siapathToUID[p] = NoUID]
           named == IF renamed
                    THEN [moved EXCEPT !.disk[siaPath(moved, uid)] = NoUID,
                                       !.disk[q] = uid,
                                       !.entryPath[uid] = q]
                    ELSE moved
       IN IF checked.exists
          THEN call' = checked.fs
          ELSE IF opened.err
               THEN call' = opened.fs
               ELSE call' = closeEntry(named, uid)
    /\ UNCHANGED <<dlVars, completeChan, err, uploadVars, latchVars, requestVars,
                   receivedVars, repairVars, build, clearing, lk>>

\* removed: entry.Delete removes the file without an error.
Delete(p, loaded, removed) ==
    /\ call.pcCall = "fileset"
    /\ LET opened == open(call, p, loaded)
           uid == opened.uid
           gone == [opened.fs EXCEPT !.deleted[uid] = TRUE,
                                     !.disk[siaPath(opened.fs, uid)] = NoUID,
                                     !.siaFileMap = @ \ {uid},
                                     !.siapathToUID[siaPath(opened.fs, uid)] = NoUID]
       IN IF opened.err
          THEN call' = opened.fs
          ELSE IF removed
               THEN call' = closeEntry(gone, uid)
               ELSE call' = closeEntry(opened.fs, uid)
    /\ UNCHANGED <<dlVars, completeChan, err, uploadVars, latchVars, requestVars,
                   receivedVars, repairVars, build, clearing, lk>>

(***************************************************************************)
(* siaFileSetEntry.Snapshot and the mutex of the siafile (sf.mu, a         *)
(* sync.RWMutex: readers counts the read locks held, writer says whether   *)
(* the write lock is held). Several threads take a snapshot of the same    *)
(* file while another thread locks the file for writing. The work between  *)
(* RLock and the test of CombinedChunkStatus changes nothing that is       *)
(* shared and is part of the step that takes the lock.                     *)
(***************************************************************************)
NumSnapshots == 3

Snapshots == 1..NumSnapshots

\* What the two tests of CombinedChunkStatus tell apart: a status above
\* CombinedChunkStatusIncomplete, one above CombinedChunkStatusNoChunk, or
\* neither.
CombinedChunkStatuses == {"aboveIncomplete", "aboveNoChunk", "noChunk"}

\* partialsSiaFile.Pieces fails: return nil, err.
snapshotPiecesFail(s, t) ==
    [s EXCEPT !.pcSnapshot[t] = "returned", !.snapshotErr[t] = TRUE]

SnapshotRLock(t) ==
    /\ call.pcCall = "snapshot"
    /\ call.pcSnapshot[t] = "idle"
    /\ ~call.writer
    /\ call' = [call EXCEPT !.pcSnapshot[t] = "rlocked", !.readers = @ + 1]
    /\ UNCHANGED <<dlVars, completeChan, err, uploadVars, latchVars, requestVars,
                   receivedVars, repairVars, build, clearing, lk>>

\* From the partial chunk to RUnlock. piecesErr: partialsSiaFile.Pieces
\* returns an error.
SnapshotPartialChunk(t, status, piecesErr) ==
    /\ call.pcCall = "snapshot"
    /\ call.pcSnapshot[t] = "rlocked"
    /\ IF status = "aboveIncomplete" /\ piecesErr
       THEN call' = snapshotPiecesFail(call, t)
       ELSE call' = [call EXCEPT !.pcSnapshot[t] = "unlocked", !.readers = @ - 1]
    /\ UNCHANGED <<dlVars, completeChan, err, uploadVars, latchVars, requestVars,
                   receivedVars, repairVars, build, clearing, lk>>

\* The siapath, read under the mutex of the set, and the return.
SnapshotReturn(t) ==
    /\ call.pcCall = "snapshot"
    /\ call.pcSnapshot[t] = "unlocked"
    /\ call' = [call EXCEPT !.pcSnapshot[t] = "returned"]
    /\ UNCHANGED <<dlVars, completeChan, err, uploadVars, latchVars, requestVars,
                   receivedVars, repairVars, build, clearing, lk>>

\* A thread that changes the file: sf.mu.Lock().
SiaFileLock ==
    /\ call.pcCall = "snapshot"
    /\ ~call.writer
    /\ call.readers = 0
    /\ call' = [call EXCEPT !.writer = TRUE]
    /\ UNCHANGED <<dlVars, completeChan, err, uploadVars, latchVars, requestVars,
                   receivedVars, repairVars, build, clearing, lk>>

SiaFileUnlock ==
    /\ call.pcCall = "snapshot"
    /\ call.writer
    /\ call' = [call EXCEPT !.writer = FALSE]
    /\ UNCHANGED <<dlVars, completeChan, err, uploadVars, latchVars, requestVars,
                   receivedVars, repairVars, build, clearing, lk>>

(***************************************************************************)
(* SiaFile.applyUpdates on a list of updates. An update is known by its    *)
(* name; given is the list passed, updates the slice the variable of the   *)
(* code holds (it begins base updates into given), performed the places    *)
(* in given, counted from 1, of the updates carried out on the disk. The   *)
(* indices i and k count from 0 as in the code. An index at or beyond the  *)
(* length of the slice stops the call with a panic.                        *)
(***************************************************************************)
MaxUpdates == 3

UpdateNames == {"updateDeleteName", "updateInsertName", "updateDeletePartialName",
                "unknown"}

UpdateLists == UNION {[1..n -> UpdateNames] : n \in 0..MaxUpdates}

\* One round of the loop that looks for the last delete. ioErr:
\* readAndApplyDeleteUpdate fails.
applyUpdatesScan(ioErr) ==
    /\ call.pcCall = "updates"
    /\ call.pc = "scan"
    /\ IF call.i < 0
       THEN call' = [call EXCEPT !.pc = IF Len(call.updates) = 0
                                        THEN "returned" ELSE "open"]
       ELSE IF call.i >= Len(call.updates)
            THEN call' = [call EXCEPT !.pc = "panic"]
            ELSE IF call.updates[call.i + 1] = "updateDeleteName"
                 THEN IF ioErr
                      THEN call' = [call EXCEPT !.pc = "returned", !.err = TRUE]
                      ELSE call' = [call EXCEPT
                                      !.performed = Append(@, call.base + call.i + 1),
                                      !.updates = SubSeq(@, call.i + 2, Len(@)),
                                      !.base = @ + call.i + 1,
                                      !.i = @ - 1]
                 ELSE call' = [call EXCEPT !.i = @ - 1]
    /\ UNCHANGED <<dlVars, completeChan, err, uploadVars, latchVars, requestVars,
                   receivedVars, repairVars, build, clearing, lk>>

\* ioErr: os.MkdirAll or OpenFile fails.
applyUpdatesOpen(ioErr) ==
    /\ call.pcCall = "updates"
    /\ call.pc = "open"
    /\ IF ioErr
       THEN call' = [call EXCEPT !.pc = "returned", !.err = TRUE]
       ELSE call' = [call EXCEPT !.pc = "apply", !.k = 0]
    /\ UNCHANGED <<dlVars, completeChan, err, uploadVars, latchVars, requestVars,
                   receivedVars, repairVars, build, clearing, lk>>

\* One round of the loop that applies the updates, or its end with the
\* deferred Sync and Close. ioErr: the update, or Sync or Close, fails.
applyUpdatesApply(ioErr) ==
    /\ call.pcCall = "updates"
    /\ call.pc = "apply"
    /\ IF call.k >= Len(call.updates)
       THEN call' = [call EXCEPT !.pc = "returned", !.err = ioErr]
       ELSE LET name == call.updates[call.k + 1] IN
              IF name = "updateDeleteName"
              THEN call' = [call EXCEPT !.k = @ + 1]
              ELSE IF name = "unknown" \/ ioErr
                   THEN call' = [call EXCEPT !.pc = "returned", !.err = TRUE]
                   ELSE call' = [call EXCEPT
                                   !.performed = Append(@, call.base + call.k + 1),
                                   !.k = @ + 1]
    /\ UNCHANGED <<dlVars, completeChan, err, uploadVars, latchVars, requestVars,
                   receivedVars, repairVars, build, clearing, lk>>

(***************************************************************************)
(* Node.Close. The modules are numbered in the order in which Close goes   *)
(* through them: Explorer, Miner, Host, Renter, Wallet, TransactionPool,   *)
(* ConsensusSet, Gateway. An error is the set of the modules whose errors  *)
(* it holds; the empty set is nil.                                         *)
(***************************************************************************)
NumModules == 8

Modules == 1..NumModules

\* errors.Compose of the errors given: nil errors are left out, and the
\* result is nil when nothing is left.
Compose(errs) == UNION errs

\* err = errors.Compose(n.X.Close()) for the module m, which is present.
closeModule(n, m, failing) ==
    [n EXCEPT !.closed = @ \cup {m},
              !.err = Compose({IF m \in failing THEN {m} ELSE {}}),
              !.m = m + 1]

\* The if statement of the module call.m, or the return after the last.
NodeClose ==
    /\ call.pcCall = "node"
    /\ call.pc = "closing"
    /\ IF call.m > NumModules
       THEN call' = [call EXCEPT !.pc = "returned"]
       ELSE IF call.m \in call.present
            THEN call' = closeModule(call, call.m, call.failing)
            ELSE call' = [call EXCEPT !.m = @ + 1]
    /\ UNCHANGED <<dlVars, completeChan, err, uploadVars, latchVars, requestVars,
                   receivedVars, repairVars, build, clearing, lk>>

(***************************************************************************)
(* The download history and ClearDownloadHistory. Times are counted from   *)
(* the zero time up to types.EndOfTime.                                    *)
(***************************************************************************)
MaxTime == 3
MaxHistory == 3

ZeroTime == 0
EndOfTime == MaxTime
Times == ZeroTime..EndOfTime

NoClear == [pcClear |-> "idle"]

ErrStopped == "stopped"
ErrTimestamps == "before timestamp can not be newer then after timestamp"

withinTimespan(t, after, before) ==
    (t > after \/ t = after) /\ (t < before \/ t = before)

\* The error ClearDownloadHistory returns and the history it leaves; stopped
\* says that the thread group of the renter is stopped.
clearDownloadHistory(history, after, before, stopped) ==
    IF stopped
    THEN [err |-> ErrStopped, history |-> history]
    ELSE IF Len(history) = 0
    THEN [err |-> NoError, history |-> history]
    ELSE IF before < after
    THEN [err |-> ErrTimestamps, history |-> history]
    ELSE IF before = EndOfTime /\ after = ZeroTime
    THEN [err |-> NoError, history |-> <<>>]
    ELSE [err |-> NoError,
          history |-> SelectSeq(history,
                                LAMBDA d : ~withinTimespan(d.staticStartTime,
                                                           after, before))]

\* managedDownload appends the download it has started to the history.
appendDownloadHistory ==
    /\ Len(downloadHistory) < MaxHistory
    /\ \E staticStartTime \in Times :
          downloadHistory' =
              Append(downloadHistory, [staticStartTime |-> staticStartTime])
    /\ UNCHANGED <<fileExists, fileSize, pieceSize, numChunks, offsetparam,
                   lengthparam, pcRequest, params, response, destination,
                   downloadHeap>>
    /\ UNCHANGED <<dlVars, completeChan, err, uploadVars, latchVars, receivedVars,
                   repairVars, callVars>>

\* renterClearDownloadsHandler calls ClearDownloadHistory, which runs under
\* downloadHistoryMu.
ClearDownloadHistory ==
    /\ clearing = NoClear
    /\ \E after \in Times, before \in Times, stopped \in BOOLEAN :
          LET cleared == clearDownloadHistory(downloadHistory, after, before, stopped)
          IN /\ downloadHistory' = cleared.history
             /\ clearing' = [pcClear |-> "returned", after |-> after,
                             before |-> before, err |-> cleared.err]
    /\ UNCHANGED <<fileExists, fileSize, pieceSize, numChunks, offsetparam,
                   lengthparam, pcRequest, params, response, destination,
                   downloadHeap>>
    /\ UNCHANGED <<dlVars, completeChan, err, uploadVars, latchVars, receivedVars,
                   repairVars, build, lk, call>>

\* renterClearDownloadsHandler answers with the error or with success.
renterClearDownloadsHandler ==
    /\ clearing # NoClear
    /\ clearing' = NoClear
    /\ UNCHANGED <<dlVars, completeChan, err, uploadVars, latchVars, requestVars,
                   receivedVars, repairVars, build, lk, call>>

(***************************************************************************)
(* The mutexes of a download chunk and of its workers. Every Lock() of the *)
(* code is a step of its own, which waits until the mutex is free; the     *)
(* critical section and its Unlock() are the next step of the thread. What *)
(* a critical section decides from the pieces of the chunk is left open.   *)
(***************************************************************************)
udcMu == 0
downloadMu(w) == w

NoLocks == [at |-> <<>>]

\* The mutex a thread is about to lock.
wantedMutex(t) ==
    IF lk.at[t] \in {"next", "kill"} THEN downloadMu(t)
    ELSE IF lk.at[t] = "queue" THEN downloadMu(lk.target[t])
    ELSE udcMu

waiting(t) == lk.at[t] \in {"next", "kill", "queue", "process", "unregister",
                            "complete", "remove", "cleanup"}

mutexFree(m) == \A t \in Threads : m \notin lk.held[t]

\* Where a thread goes on when its call of managedRemoveWorker or
\* managedQueueDownloadChunk returns.
lockBase(t) ==
    IF t = Dist THEN "dist"
    ELSE IF ~lk.terminated[t] THEN "idle"
    ELSE IF lk.removedChunks[t] > 0 THEN "killloop" ELSE "dead"

killUnlock_AfterLoop(held, w) == held

\* managedKillDownloading: w.downloadMu.Unlock() before the loop over the
\* chunks removed.
killUnlock(held, w) == held \ {downloadMu(w)}

\* mu.Lock()
Lock(t) ==
    /\ waiting(t)
    /\ mutexFree(wantedMutex(t))
    /\ lk' = [lk EXCEPT !.held[t] = @ \cup {wantedMutex(t)},
                        !.at[t] = "in_" \o lk.at[t]]
    /\ UNCHANGED <<dlVars, completeChan, err, uploadVars, latchVars, requestVars,
                   receivedVars, repairVars, build, clearing, call>>

\* The download loop hands the chunk to the next worker.
lockedDistribute ==
    /\ lk.at[Dist] = "dist"
    /\ \E w \in lk.toDistribute :
          lk' = [lk EXCEPT !.toDistribute = @ \ {w},
                           !.target[Dist] = w,
                           !.at[Dist] = "queue"]
    /\ UNCHANGED <<dlVars, completeChan, err, uploadVars, latchVars, requestVars,
                   receivedVars, repairVars, build, clearing, call>>

\* The worker thread looks for work, or is told to stop.
lockedWorkLoop(w) ==
    /\ lk.at[w] = "idle"
    /\ \E kill \in BOOLEAN :
          lk' = [lk EXCEPT !.at[w] = IF kill THEN "kill" ELSE "next"]
    /\ UNCHANGED <<dlVars, completeChan, err, uploadVars, latchVars, requestVars,
                   receivedVars, repairVars, build, clearing, call>>

\* managedNextDownloadChunk under w.downloadMu.
lockedNextDownloadChunk(w) ==
    /\ lk.at[w] = "in_next"
    /\ lk' = [lk EXCEPT !.queued[w] = IF @ > 0 THEN @ - 1 ELSE 0,
                        !.held[w] = @ \ {downloadMu(w)},
                        !.at[w] = IF lk.queued[w] > 0 THEN "process" ELSE "idle"]
    /\ UNCHANGED <<dlVars, completeChan, err, uploadVars, latchVars, requestVars,
                   receivedVars, repairVars, build, clearing, call>>

\* ownedProcessDownloadChunk under udc.mu: the worker drops the chunk (and
\* unlocks before it calls managedRemoveWorker), registers for its piece, or
\* goes on standby.
lockedProcessDownloadChunk(w) ==
    /\ lk.at[w] = "in_process"
    /\ \E decision \in {"drop", "register", "standby"} :
          lk' = [lk EXCEPT
                   !.standby = IF decision = "standby" THEN Append(@, w) ELSE @,
                   !.held[w] = @ \ {udcMu},
                   !.at[w] = CASE decision = "drop" -> "remove"
                               [] decision = "register" -> "fetch"
                               [] decision = "standby" -> "idle"]
    /\ UNCHANGED <<dlVars, completeChan, err, uploadVars, latchVars, requestVars,
                   receivedVars, repairVars, build, clearing, call>>

\* managedDownload without a lock: the piece is fetched and decrypted, or an
\* error is returned.
lockedFetch(w) ==
    /\ lk.at[w] = "fetch"
    /\ \E failure \in BOOLEAN :
          lk' = [lk EXCEPT !.at[w] = IF failure THEN "unregister" ELSE "complete"]
    /\ UNCHANGED <<dlVars, completeChan, err, uploadVars, latchVars, requestVars,
                   receivedVars, repairVars, build, clearing, call>>

\* managedUnregisterWorker, or the completion of the piece in managedDownload,
\* under udc.mu; the deferred managedRemoveWorker follows.
lockedResolve(w) ==
    /\ lk.at[w] \in {"in_unregister", "in_complete"}
    /\ lk' = [lk EXCEPT !.held[w] = @ \ {udcMu},
                        !.at[w] = "remove"]
    /\ UNCHANGED <<dlVars, completeChan, err, uploadVars, latchVars, requestVars,
                   receivedVars, repairVars, build, clearing, call>>

\* managedRemoveWorker under udc.mu; managedCleanUp follows.
lockedRemoveWorker(t) ==
    /\ lk.at[t] = "in_remove"
    /\ lk' = [lk EXCEPT !.held[t] = @ \ {udcMu},
                        !.at[t] = "cleanup"]
    /\ UNCHANGED <<dlVars, completeChan, err, uploadVars, latchVars, requestVars,
                   receivedVars, repairVars, build, clearing, call>>

\* managedCleanUp under udc.mu: a standby worker is taken off standby to have
\* the chunk queued, after the unlock, or nothing is done.
lockedCleanUp(t) ==
    /\ lk.at[t] = "in_cleanup"
    /\ \E wake \in BOOLEAN :
          IF wake /\ lk.standby # <<>>
          THEN lk' = [lk EXCEPT !.standby = Tail(@),
                                !.target[t] = Head(lk.standby),
                                !.held[t] = @ \ {udcMu},
                                !.at[t] = "queue"]
          ELSE lk' = [lk EXCEPT !.held[t] = @ \ {udcMu},
                                !.at[t] = lockBase(t)]
    /\ UNCHANGED <<dlVars, completeChan, err, uploadVars, latchVars, requestVars,
                   receivedVars, repairVars, build, clearing, call>>

\* managedQueueDownloadChunk under w.downloadMu; managedRemoveWorker follows
\* the unlock when the worker has terminated.
lockedQueueDownloadChunk(t) ==
    /\ lk.at[t] = "in_queue"
    /\ LET w == lk.target[t]
           terminated == lk.terminated[w]
       IN lk' = [lk EXCEPT !.queued[w] = IF terminated THEN @ ELSE @ + 1,
                           !.held[t] = @ \ {downloadMu(w)},
                           !.at[t] = IF terminated THEN "remove" ELSE lockBase(t)]
    /\ UNCHANGED <<dlVars, completeChan, err, uploadVars, latchVars, requestVars,
                   receivedVars, repairVars, build, clearing, call>>

\* managedKillDownloading under w.downloadMu.
lockedKillDownloading(w) ==
    /\ lk.at[w] = "in_kill"
    /\ lk' = [lk EXCEPT !.removedChunks[w] = lk.queued[w],
                        !.queued[w] = 0,
                        !.terminated[w] = TRUE,
                        !.held[w] = killUnlock(@, w),
                        !.at[w] = IF lk.queued[w] > 0 THEN "killloop" ELSE "dead"]
    /\ UNCHANGED <<dlVars, completeChan, err, uploadVars, latchVars, requestVars,
                   receivedVars, repairVars, build, clearing, call>>

\* managedKillDownloading: the loop over the chunks removed.
lockedKillDownloadingLoop(w) ==
    /\ lk.at[w] = "killloop"
    /\ lk.removedChunks[w] > 0
    /\ lk' = [lk EXCEPT !.removedChunks[w] = @ - 1,
                        !.at[w] = "remove"]
    /\ UNCHANGED <<dlVars, completeChan, err, uploadVars, latchVars, requestVars,
                   receivedVars, repairVars, build, clearing, call>>

(***************************************************************************)
(* Specifications.                                                         *)
(***************************************************************************)
InitChunk ==
    /\ piecesRegistered = 0
    /\ piecesCompleted = 0
    /\ workersRemaining = NumWorkers
    /\ pieceUsage = [i \in Pieces |-> FALSE]
    /\ completedPieces = [i \in Pieces |-> FALSE]
    /\ workersStandby = <<>>
    /\ failed = FALSE
    /\ recoveryComplete = FALSE
    /\ memoryReleased = FALSE
    /\ downloadChunks = [w \in Workers |-> <<>>]
    /\ downloadTerminated = [w \in Workers |-> FALSE]
    /\ ownedDownloadConsecutiveFailures = [w \in Workers |-> 0]
    /\ ownedDownloadRecentFailure = [w \in Workers |-> 0]
    /\ now = downloadFailureCooldown
    /\ pc = [t \in Threads |-> IF t = Dist THEN "dist" ELSE "idle"]
    /\ acct = [t \in Threads |-> NoWorker]
    /\ target = [t \in Threads |-> NoWorker]
    /\ toDistribute = Workers
    /\ removedChunks = [w \in Workers |-> 0]
    /\ recovering = 0
    /\ completeChan = FALSE
    /\ err = NoError
    /\ removedFor = [w \in Workers |-> 0]
    /\ recoveryLaunched = 0
    /\ tgAddFailed = FALSE
    /\ queuedInto = [w \in Workers |-> 0]

InitUploadHeap ==
    /\ heap = <<>>
    /\ heapChunks = {}
    /\ repairingChunks = {}
    /\ pcRepair = "returned"
    /\ nextChunk = NoChunk
    /\ consecutiveChunkRepairs = 0
    /\ stuckChunks = <<>>
    /\ fetching = [id \in ChunkIDs |-> 0]
    /\ distributed = [id \in ChunkIDs |-> 0]
    /\ rejectedPush = NoChunk

InitLatch ==
    /\ downloadCompleteFuncs = <<>>
    /\ executed = [f \in Funcs |-> 0]
    /\ registeredFuncs = {}
    /\ mu = NoHolder
    /\ chunksRemaining = NumDownloadChunks
    /\ pcApi = "new"
    /\ appendBase = <<>>
    /\ pcComplete = [t \in Completers |-> "idle"]
    /\ registrationOrder = <<>>
    /\ executionOrder = <<>>

\* No download request: the file and the parameters of the request play no
\* part in the other specifications.
InitNoRequest ==
    /\ fileExists = FALSE
    /\ fileSize = 0
    /\ pieceSize = 1
    /\ numChunks = 0
    /\ offsetparam = 0
    /\ lengthparam = 0
    /\ pcRequest = "done"
    /\ params = NoParams
    /\ response = "none"
    /\ destination = "absent"
    /\ downloadHistory = <<>>
    /\ downloadHeap = <<>>

\* The chunk is fetched whole; its erasure code is the one of the model.
InitReceived ==
    /\ atomicDataReceived = 0
    /\ chunkFetchLength = MaxFetchLength
    /\ codeMinPieces = MinPieces

\* managedRepairLoop is not running; the chunks that are stuck in their file
\* are the chunks that were built stuck.
InitRepair ==
    /\ health = NoHealth
    /\ availableWorkers = NoCount
    /\ updatedRecentRepairTime = FALSE
    /\ fileStuck = {id \in ChunkIDs : uuc[id].stuck}

\* No call of buildUnfinishedChunks is in progress and no call of
\* ClearDownloadHistory waits for its answer.
InitNoCall ==
    build = NoBuild /\ clearing = NoClear /\ lk = NoLocks /\ call = NoCall

\* The download chunk. The workers are interchangeable: only chunk maps that
\* do not decrease with the worker's number are enumerated.
Init ==
    /\ staticChunkMap \in {m \in [Workers -> Pieces \cup {NoPiece}] :
                              \A v, w \in Workers : v < w => m[v] <= m[w]}
    /\ staticOverdrive \in 0..MaxOverdrive
    /\ InitChunk
    /\ uuc = [id \in ChunkIDs |->
                [stuck |-> FALSE, piecesCompleted |-> 0, piecesNeeded |-> NumPieces]]
    /\ InitUploadHeap
    /\ InitLatch
    /\ InitNoRequest
    /\ InitReceived
    /\ InitRepair
    /\ InitNoCall

Next ==
    \/ managedDistributeDownloadChunkToWorkers
    \/ \E t \in Threads : managedQueueDownloadChunk(t)
    \/ \E t \in Threads : managedRemoveWorker(t)
    \/ \E t \in Threads : managedCleanUp(t)
    \/ \E w \in Workers : managedNextDownloadChunk(w)
    \/ \E w \in Workers : ownedProcessDownloadChunk(w)
    \/ \E w \in Workers : managedDownloadFail(w)
    \/ \E w \in Workers : managedDownloadComplete(w)
    \/ \E w \in Workers : managedKillDownloading(w)
    \/ \E w \in Workers : managedKillDownloadingLoop(w)
    \/ threadedRecoverLogicalData
    \/ managedCancel

Spec == Init /\ [][Next]_vars

\* The download chunk when no host delivers its piece: every fetch of a
\* claimed piece fails. The calls and the steps of the workers go on until
\* they return (weak fairness). A worker may be killed at any time (no
\* fairness makes it happen); nobody cancels the download, so that an error
\* of the download is the error of its chunk.
NextFailing ==
    \/ managedDistributeDownloadChunkToWorkers
    \/ \E t \in Threads : managedQueueDownloadChunk(t)
    \/ \E t \in Threads : managedRemoveWorker(t)
    \/ \E t \in Threads : managedCleanUp(t)
    \/ \E w \in Workers : managedNextDownloadChunk(w)
    \/ \E w \in Workers : ownedProcessDownloadChunk(w)
    \/ \E w \in Workers : managedDownloadFail(w)
    \/ \E w \in Workers : managedKillDownloading(w)
    \/ \E w \in Workers : managedKillDownloadingLoop(w)

\* The next step of thread t, whatever call it is in.
threadStep(t) ==
    \/ managedQueueDownloadChunk(t)
    \/ managedRemoveWorker(t)
    \/ managedCleanUp(t)
    \/ (t = Dist /\ managedDistributeDownloadChunkToWorkers)
    \/ (t \in Workers /\ managedNextDownloadChunk(t))
    \/ (t \in Workers /\ ownedProcessDownloadChunk(t))
    \/ (t \in Workers /\ managedDownloadFail(t))
    \/ (t \in Workers /\ managedKillDownloadingLoop(t))

FairFailing == \A t \in Threads : WF_vars(threadStep(t))

SpecFailing == Init /\ [][NextFailing]_vars /\ FairFailing

\* The place of a chunk in the heap order: the stuck chunks first, then by
\* the pieces completed.
chunkRank(c) == (IF c.stuck THEN 0 ELSE NumPieces) + c.piecesCompleted

\* The upload heap. The chunk ids are interchangeable: only assignments
\* whose rank does not decrease with the id are enumerated.
InitHeap ==
    /\ uuc \in {f \in [ChunkIDs -> UnfinishedUploadChunk] :
                   \A a, b \in ChunkIDs : a < b => chunkRank(f[a]) <= chunkRank(f[b])}
    /\ InitUploadHeap
    /\ staticChunkMap = [w \in Workers |-> NoPiece]
    /\ staticOverdrive = 0
    /\ InitChunk
    /\ InitLatch
    /\ InitNoRequest
    /\ InitReceived
    /\ InitRepair
    /\ InitNoCall

NextHeap ==
    \/ \E id \in ChunkIDs : managedPush(id)
    \/ threadedUploadLoop
    \/ managedPop
    \/ managedRepairLoopSkip
    \/ managedPrepareNextChunk
    \/ managedLen
    \/ managedRepairLoopKeepStuck
    \/ managedRepairLoopRepush
    \/ \E id \in ChunkIDs : threadedFetchAndRepairChunk(id)
    \/ \E id \in ChunkIDs : managedCleanUpUploadChunk(id)

SpecHeap == InitHeap /\ [][NextHeap]_vars

\* The repair loop with every iteration taken step by step, on chunks none of
\* whose pieces is there.
InitRepairLoop ==
    /\ uuc \in {f \in [ChunkIDs -> UnfinishedUploadChunk] :
                   /\ \A a \in ChunkIDs : f[a].piecesCompleted = 0
                   /\ \A a, b \in ChunkIDs : a < b => chunkRank(f[a]) <= chunkRank(f[b])}
    /\ InitUploadHeap
    /\ staticChunkMap = [w \in Workers |-> NoPiece]
    /\ staticOverdrive = 0
    /\ InitChunk
    /\ InitLatch
    /\ InitNoRequest
    /\ InitReceived
    /\ InitRepair
    /\ InitNoCall

NextRepairLoop ==
    \/ \E id \in ChunkIDs : managedPush(id)
    \/ threadedUploadLoop
    \/ managedPop
    \/ managedRepairLoopHealth
    \/ managedRepairLoopWorkers
    \/ managedRepairLoopSetStuck
    \/ managedRepairLoopPrepare
    \/ managedLen
    \/ managedRepairLoopKeepStuck
    \/ managedRepairLoopRepush
    \/ \E id \in ChunkIDs : threadedFetchAndRepairChunk(id)
    \/ \E id \in ChunkIDs : managedCleanUpUploadChunk(id)

SpecRepairLoop == InitRepairLoop /\ [][NextRepairLoop]_vars

\* The completion of a download.
InitDownload ==
    /\ InitLatch
    /\ staticChunkMap = [w \in Workers |-> NoPiece]
    /\ staticOverdrive = 0
    /\ InitChunk
    /\ uuc = [id \in ChunkIDs |->
                [stuck |-> FALSE, piecesCompleted |-> 0, piecesNeeded |-> NumPieces]]
    /\ InitUploadHeap
    /\ InitNoRequest
    /\ InitReceived
    /\ InitRepair
    /\ InitNoCall

NextDownload ==
    \/ managedNewDownload
    \/ OnComplete
    \/ onCompleteSelect
    \/ onCompleteAppendRead
    \/ onCompleteAppendWrite
    \/ \E t \in DownloadChunks : launchRecovery(t)
    \/ \E t \in Completers : managedFailLock(t)
    \/ \E t \in DownloadChunks : chunkRecovered(t)
    \/ \E t \in Completers : markCompleteFuncs(t)
    \/ \E t \in Completers : markCompleteNil(t)
    \/ \E t \in Completers : markCompleteClose(t)

SpecDownload == InitDownload /\ [][NextDownload]_vars

\* One download request on one file. A file that does not exist has no size;
\* an empty file is kept with no chunk or with one.
InitRequest ==
    /\ fileExists \in BOOLEAN
    /\ fileSize \in (IF fileExists THEN 0..MaxFileSize ELSE {0})
    /\ pieceSize \in (IF fileExists THEN 1..MaxPieceSize ELSE {1})
    /\ numChunks \in (IF ~fileExists THEN {0}
                      ELSE IF fileSize = 0 THEN {0, 1}
                      ELSE {chunksOfFile(fileSize, ChunkSize)})
    /\ offsetparam \in (-1)..(WordLimit - 1)
    /\ lengthparam \in (-1)..(WordLimit - 1)
    /\ pcRequest = "parse"
    /\ params = NoParams
    /\ response = "none"
    /\ destination = "absent"
    /\ downloadHistory = <<>>
    /\ downloadHeap = <<>>
    /\ staticChunkMap = [w \in Workers |-> NoPiece]
    /\ staticOverdrive = 0
    /\ InitChunk
    /\ uuc = [id \in ChunkIDs |->
                [stuck |-> FALSE, piecesCompleted |-> 0, piecesNeeded |-> NumPieces]]
    /\ InitUploadHeap
    /\ InitLatch
    /\ InitReceived
    /\ InitRepair
    /\ InitNoCall

NextRequest ==
    \/ parseDownloadParameters
    \/ managedDownload

SpecRequest == InitRequest /\ [][NextRequest]_vars

\* The bytes received of one chunk, for every fetch length and every number
\* of pieces the erasure code needs.
InitCounted ==
    /\ atomicDataReceived = 0
    /\ chunkFetchLength \in 0..MaxFetchLength
    /\ codeMinPieces \in 1..MaxCodeMinPieces
    /\ staticChunkMap = [w \in Workers |-> NoPiece]
    /\ staticOverdrive = MaxOverdrive
    /\ InitChunk
    /\ uuc = [id \in ChunkIDs |->
                [stuck |-> FALSE, piecesCompleted |-> 0, piecesNeeded |-> NumPieces]]
    /\ InitUploadHeap
    /\ InitLatch
    /\ InitNoRequest
    /\ InitRepair
    /\ InitNoCall

NextCounted == managedDownloadCounted

SpecCounted == InitCounted /\ [][NextCounted]_vars

\* One call of buildUnfinishedChunks, for every file of up to NumUploadChunks
\* chunks, every set of hosts, every set of hosts whose contract is good for
\* renewal, every number of workers and both repair targets.
InitBuild ==
    /\ build \in [pcBuild : {"call"},
                  stuck : UNION {[1..n -> BOOLEAN] : n \in 0..NumUploadChunks},
                  closed : {{}},
                  hosts : SUBSET Hosts,
                  goodForRenew : SUBSET Hosts,
                  repairTarget : {targetStuckChunks, targetUnstuckChunks},
                  workerPool : 0..NumWorkers,
                  chunkIndexes : {<<>>},
                  newUnfinishedChunks : {<<>>},
                  i : {0},
                  returned : {<<>>},
                  pushed : {{}}]
    /\ staticChunkMap = [w \in Workers |-> NoPiece]
    /\ staticOverdrive = MaxOverdrive
    /\ InitChunk
    /\ uuc = [id \in ChunkIDs |->
                [stuck |-> FALSE, piecesCompleted |-> 0, piecesNeeded |-> NumPieces]]
    /\ InitUploadHeap
    /\ InitLatch
    /\ InitNoRequest
    /\ InitReceived
    /\ InitRepair
    /\ clearing = NoClear
    /\ lk = NoLocks
    /\ call = NoCall

NextBuild ==
    \/ buildUnfinishedChunksAssemble
    \/ buildUnfinishedChunksPieces
    \/ buildUnfinishedChunksReturn
    \/ managedBuildAndPushChunks
    \/ managedBuildAndPushRandomChunk

SpecBuild == InitBuild /\ [][NextBuild]_vars

\* One call of managedBuildAndPushChunks, for every list of up to MaxFiles
\* files.
InitPush ==
    /\ build \in [pcBuild : {"files"}, files : FileLists, file : {0}, pushed : {{}}]
    /\ clearing = NoClear
    /\ lk = NoLocks
    /\ call = NoCall
    /\ staticChunkMap = [w \in Workers |-> NoPiece]
    /\ staticOverdrive = MaxOverdrive
    /\ InitChunk
    /\ uuc = [id \in ChunkIDs |->
                [stuck |-> FALSE, piecesCompleted |-> 0, piecesNeeded |-> NumPieces]]
    /\ InitUploadHeap
    /\ InitLatch
    /\ InitNoRequest
    /\ InitReceived
    /\ InitRepair

NextPush ==
    \/ managedBuildAndPushChunksFile
    \/ managedBuildAndPushChunksEnd

SpecPush == InitPush /\ [][NextPush]_vars

\* The other state of a specification of one call.
InitRest ==
    /\ staticChunkMap = [w \in Workers |-> NoPiece]
    /\ staticOverdrive = MaxOverdrive
    /\ InitChunk
    /\ uuc = [id \in ChunkIDs |->
                [stuck |-> FALSE, piecesCompleted |-> 0, piecesNeeded |-> NumPieces]]
    /\ InitUploadHeap
    /\ InitLatch
    /\ InitNoRequest
    /\ InitReceived
    /\ InitRepair

\* The fetch window of a chunk: every erasure code of up to MaxCodeMinPieces
\* data pieces, with and without partial encoding, and every offset and
\* length greater than 0 within the chunk.
InitSector ==
    /\ \E k \in 1..MaxCodeMinPieces, partial \in BOOLEAN :
         \E off \in 0..(k * SectorSize - 1) :
            \E len \in 1..(k * SectorSize - off) :
               call = [pcCall |-> "sector", minPieces |-> k, partial |-> partial,
                       fetchOffset |-> off, fetchLength |-> len,
                       segments |-> [segmentIndex |-> 0, numSegments |-> 0],
                       sector |-> [offset |-> 0, length |-> 0]]
    /\ build = NoBuild
    /\ clearing = NoClear
    /\ lk = NoLocks
    /\ InitRest

NextSector == managedDownloadSector

SpecSector == InitSector /\ [][NextSector]_vars

\* The API with NumAsyncDownloads requests for an asynchronous download.
InitApi ==
    /\ call = [pcCall |-> "api",
               handler |-> [id \in AsyncIDs |-> "DownloadAsync"],
               mark |-> [id \in AsyncIDs |-> "idle"],
               funcs |-> [id \in AsyncIDs |-> FALSE],
               downloads |-> {}]
    /\ build = NoBuild
    /\ clearing = NoClear
    /\ lk = NoLocks
    /\ InitRest

NextApi ==
    \/ \E id \in AsyncIDs : renterDownloadAsync(id)
    \/ \E id \in AsyncIDs : asyncOnCompleteSelect(id)
    \/ \E id \in AsyncIDs : asyncOnCompleteAppend(id)
    \/ \E id \in AsyncIDs : renterDownloadHandler(id)
    \/ \E id \in AsyncIDs : asyncMarkComplete(id)
    \/ \E id \in AsyncIDs : asyncMarkCompleteClose(id)
    \/ \E id \in AsyncIDs : renterCancelDownloadHandler(id)

SpecApi == InitApi /\ [][NextApi]_vars

\* A SiaFileSet that starts empty, with no file stored, and whose methods
\* are called in any order.
InitFileSet ==
    /\ call = [pcCall |-> "fileset",
               siapathToUID |-> [p \in SiaPaths |-> NoUID],
               siaFileMap |-> {},
               entryPath |-> [uid \in SiafileUIDs |-> 1],
               deleted |-> [uid \in SiafileUIDs |-> FALSE],
               threadMap |-> [uid \in SiafileUIDs |-> 0],
               disk |-> [p \in SiaPaths |-> NoUID],
               nextUID |-> 1]
    /\ build = NoBuild
    /\ clearing = NoClear
    /\ lk = NoLocks
    /\ InitRest

NextFileSet ==
    \/ \E p \in SiaPaths, force, created \in BOOLEAN : NewSiaFile(p, force, created)
    \/ \E p \in SiaPaths, loaded \in BOOLEAN : Open(p, loaded)
    \/ \E uid \in SiafileUIDs : Close(uid)
    \/ \E p, q \in SiaPaths, loaded, renamed \in BOOLEAN : Rename(p, q, loaded, renamed)
    \/ \E p \in SiaPaths, loaded, removed \in BOOLEAN : Delete(p, loaded, removed)

SpecFileSet == InitFileSet /\ [][NextFileSet]_vars

\* A siafile that no thread has locked, of which every thread takes one
\* snapshot.
InitSnapshot ==
    /\ call = [pcCall |-> "snapshot",
               pcSnapshot |-> [t \in Snapshots |-> "idle"],
               snapshotErr |-> [t \in Snapshots |-> FALSE],
               readers |-> 0,
               writer |-> FALSE]
    /\ build = NoBuild
    /\ clearing = NoClear
    /\ lk = NoLocks
    /\ InitRest

NextSnapshot ==
    \/ \E t \in Snapshots : SnapshotRLock(t)
    \/ \E t \in Snapshots, status \in CombinedChunkStatuses, piecesErr \in BOOLEAN :
          SnapshotPartialChunk(t, status, piecesErr)
    \/ \E t \in Snapshots : SnapshotReturn(t)
    \/ SiaFileLock
    \/ SiaFileUnlock

SpecSnapshot == InitSnapshot /\ [][NextSnapshot]_vars

\* applyUpdates is called on a file that is not deleted, with any list of
\* updates.
InitUpdates ==
    /\ \E given \in UpdateLists :
          call = [pcCall |-> "updates",
                  pc |-> "scan",
                  given |-> given,
                  updates |-> given,
                  base |-> 0,
                  i |-> Len(given) - 1,
                  k |-> 0,
                  performed |-> <<>>,
                  err |-> FALSE]
    /\ build = NoBuild
    /\ clearing = NoClear
    /\ lk = NoLocks
    /\ InitRest

NextUpdates ==
    \/ \E ioErr \in BOOLEAN : applyUpdatesScan(ioErr)
    \/ \E ioErr \in BOOLEAN : applyUpdatesOpen(ioErr)
    \/ \E ioErr \in BOOLEAN : applyUpdatesApply(ioErr)

SpecUpdates == InitUpdates /\ [][NextUpdates]_vars

\* Close is called on a node with any of the modules, any of which fail to
\* close.
InitNode ==
    /\ \E present \in SUBSET Modules : \E failing \in SUBSET present :
          call = [pcCall |-> "node",
                  pc |-> "closing",
                  present |-> present,
                  failing |-> failing,
                  m |-> 1,
                  closed |-> {},
                  err |-> {}]
    /\ build = NoBuild
    /\ clearing = NoClear
    /\ lk = NoLocks
    /\ InitRest

NextNode == NodeClose

SpecNode == InitNode /\ [][NextNode]_vars

\* The download history of a renter whose downloads are started and cleared
\* in any order.
InitHistory ==
    /\ staticChunkMap = [w \in Workers |-> NoPiece]
    /\ staticOverdrive = MaxOverdrive
    /\ InitChunk
    /\ uuc = [id \in ChunkIDs |->
                [stuck |-> FALSE, piecesCompleted |-> 0, piecesNeeded |-> NumPieces]]
    /\ InitUploadHeap
    /\ InitLatch
    /\ InitNoRequest
    /\ InitReceived
    /\ InitRepair
    /\ InitNoCall

NextHistory ==
    \/ appendDownloadHistory
    \/ ClearDownloadHistory
    \/ renterClearDownloadsHandler

SpecHistory == InitHistory /\ [][NextHistory]_vars

\* The threads of a download chunk, none of them holding a mutex: the
\* download loop has the chunk to hand to every worker.
InitLocks ==
    /\ lk = [at |-> [t \in Threads |-> IF t = Dist THEN "dist" ELSE "idle"],
             held |-> [t \in Threads |-> {}],
             target |-> [t \in Threads |-> NoWorker],
             queued |-> [w \in Workers |-> 0],
             terminated |-> [w \in Workers |-> FALSE],
             removedChunks |-> [w \in Workers |-> 0],
             standby |-> <<>>,
             toDistribute |-> Workers]
    /\ build = NoBuild
    /\ clearing = NoClear
    /\ call = NoCall
    /\ staticChunkMap = [w \in Workers |-> NoPiece]
    /\ staticOverdrive = MaxOverdrive
    /\ InitChunk
    /\ uuc = [id \in ChunkIDs |->
                [stuck |-> FALSE, piecesCompleted |-> 0, piecesNeeded |-> NumPieces]]
    /\ InitUploadHeap
    /\ InitLatch
    /\ InitNoRequest
    /\ InitReceived
    /\ InitRepair

NextLocks ==
    \/ \E t \in Threads : Lock(t)
    \/ lockedDistribute
    \/ \E w \in Workers : lockedWorkLoop(w)
    \/ \E w \in Workers : lockedNextDownloadChunk(w)
    \/ \E w \in Workers : lockedProcessDownloadChunk(w)
    \/ \E w \in Workers : lockedFetch(w)
    \/ \E w \in Workers : lockedResolve(w)
    \/ \E t \in Threads : lockedRemoveWorker(t)
    \/ \E t \in Threads : lockedCleanUp(t)
    \/ \E t \in Threads : lockedQueueDownloadChunk(t)
    \/ \E w \in Workers : lockedKillDownloading(w)
    \/ \E w \in Workers : lockedKillDownloadingLoop(w)

SpecLocks == InitLocks /\ [][NextLocks]_vars

(***************************************************************************)
(* Properties of the download chunk (Spec).                                *)
(***************************************************************************)
onStandby(w) == \E i \in 1..Len(workersStandby) : workersStandby[i] = w

\* The number of places that still hold the chunk for worker w: the
\* distribution that has not reached w yet, w's queue, the chunks a kill took
\* out of the queue, w working on the chunk, the standby list, and calls in
\* flight that will queue the chunk into w or remove w.
Handles(w) ==
    (IF w \in toDistribute THEN 1 ELSE 0)
    + Len(downloadChunks[w])
    + removedChunks[w]
    + (IF pc[w] \in {"process", "fetch"} THEN 1 ELSE 0)
    + Cardinality({i \in 1..Len(workersStandby) : workersStandby[i] = w})
    + Cardinality({t \in Threads : pc[t] = "queue" /\ target[t] = w})
    + Cardinality({t \in Threads : pc[t] \in {"remove", "unregistered"} /\ acct[t] = w})

\* C1 as claimed: the recovery task is launched exactly once if
\* piecesCompleted reaches MinPieces, and never before.
C1_RecoveryExactlyOnce ==
    /\ recoveryLaunched <= 1
    /\ (recoveryLaunched >= 1 => piecesCompleted >= MinPieces)
    /\ (piecesCompleted >= MinPieces => recoveryLaunched = 1)

\* C1 as amended: the recovery task is launched at most once and never before
\* piecesCompleted reaches MinPieces; once piecesCompleted has reached
\* MinPieces it has been launched exactly once, unless the renter's thread
\* group was already stopped at that completion (tg.Add failed), in which
\* case it is not launched at all.
C1_RecoveryOnceUnlessStopped ==
    /\ recoveryLaunched <= 1
    /\ (recoveryLaunched >= 1 => piecesCompleted >= MinPieces)
    /\ (piecesCompleted >= MinPieces =>
            recoveryLaunched = (IF tgAddFailed THEN 0 ELSE 1))

\* An overdrive worker completed its piece after the one that started the
\* recovery.
C1_Witness == piecesCompleted > MinPieces /\ recoveryLaunched = 1

\* C2: piecesRegistered + piecesCompleted never exceeds NumPieces, and no
\* piece index is claimed by two workers at the same time.
C2_PiecesBound ==
    /\ piecesRegistered + piecesCompleted <= NumPieces
    /\ \A v, w \in Workers :
         v # w /\ pc[v] = "fetch" /\ pc[w] = "fetch" => pieceIndex(v) # pieceIndex(w)

\* Two workers hold the same piece; one has claimed it, the other one was put
\* on standby although another active worker was wanted.
C2_Witness ==
    \E v, w \in Workers :
        /\ v # w /\ workerHasPiece(v) /\ staticChunkMap[v] = staticChunkMap[w]
        /\ pc[v] = "fetch" /\ onStandby(w)
        /\ piecesRegistered + piecesCompleted < MinPieces + staticOverdrive

\* C3: the number of true entries of pieceUsage equals
\* piecesRegistered + piecesCompleted whenever the chunk lock is free.
C3_UsageCount == CountTrue(pieceUsage) = piecesRegistered + piecesCompleted

\* One worker has completed its piece, another one has unregistered.
C3_Witness ==
    /\ piecesCompleted >= 1
    /\ \E w \in Workers : pc[w] = "unregistered" /\ ~pieceUsage[pieceIndex(w)]

\* C4: workersRemaining is decremented exactly once on account of every
\* worker the chunk was handed to, and not before the worker is through with
\* the chunk: a worker that still has the chunk (queued, in work, on standby,
\* in a queue or remove call in flight) has not been counted, and a worker
\* that has it nowhere any more has been counted once.
C4_RemovedOnce ==
    /\ \A w \in Workers : removedFor[w] + Handles(w) = 1
    /\ \A w \in Workers : onStandby(w) => removedFor[w] = 0
    /\ workersRemaining =
         NumWorkers - Cardinality({w \in Workers : removedFor[w] = 1})

\* Every worker has been removed once, one of them after completing its
\* piece and one because it was killed or was handed the chunk when killed.
C4_Witness ==
    /\ \A w \in Workers : removedFor[w] = 1
    /\ workersRemaining = 0
    /\ piecesCompleted >= 1
    /\ \E w \in Workers : downloadTerminated[w] /\ ~completedPieces[pieceIndex(w)]

\* C5: every claim is resolved exactly once by the worker that made it:
\* piecesRegistered is never negative and counts exactly the workers that
\* are between claim and resolution, each of them holding its own slot.
C5_ClaimsResolved ==
    /\ piecesRegistered >= 0
    /\ piecesRegistered = Cardinality({w \in Workers : pc[w] = "fetch"})
    /\ \A w \in Workers : pc[w] = "fetch" =>
          pieceUsage[pieceIndex(w)] /\ ~completedPieces[pieceIndex(w)]

\* A claim was given back by unregistration, another one by completion, and
\* no claim is open.
C5_Witness ==
    /\ piecesRegistered = 0
    /\ piecesCompleted >= 1
    /\ \E w \in Workers : pc[w] = "unregistered"

\* Worker w registers for its piece in this step.
claims(w) == pc[w] = "process" /\ pc'[w] = "fetch"

\* C27: piecesRegistered + piecesCompleted never exceeds MinPieces plus the
\* overdrive of the chunk: a worker registers for a piece only while the sum
\* is below that number and the slot of its piece is not in use, whatever
\* the order in which the workers run.
C27_PiecesInProgressBound ==
    /\ [](piecesRegistered + piecesCompleted <= MinPieces + staticOverdrive)
    /\ [][\A w \in Workers :
            claims(w)
              => /\ piecesRegistered + piecesCompleted < MinPieces + staticOverdrive
                 /\ ~pieceUsage[pieceIndex(w)]
                 /\ piecesRegistered' = piecesRegistered + 1
                 /\ pieceUsage'[pieceIndex(w)]]_vars

\* As many pieces are in progress as are desired, one of them being fetched,
\* and a worker whose piece nobody has taken is on standby.
C27_Witness ==
    /\ piecesRegistered + piecesCompleted = MinPieces + staticOverdrive
    /\ \E v, w \in Workers :
         /\ pc[v] = "fetch"
         /\ onStandby(w) /\ workerHasPiece(w) /\ ~pieceUsage[pieceIndex(w)]

\* The fetch of worker w fails in this step.
fetchFails(w) == pc[w] = "fetch" /\ pc'[w] = "unregistered"

\* C28: when the fetch of the piece a worker has claimed fails, the claim is
\* unregistered (piecesRegistered is decremented and the slot of the piece in
\* pieceUsage is cleared), workersRemaining is decremented, and the count of
\* consecutive download failures of the worker is increased, so that the
\* worker is on download cooldown.
C28_FailureUnregistersAndCoolsDown ==
    /\ [][\A w \in Workers :
            fetchFails(w)
              => /\ piecesRegistered' = piecesRegistered - 1
                 /\ ~pieceUsage'[pieceIndex(w)]
                 /\ ownedDownloadConsecutiveFailures'[w]
                      = ownedDownloadConsecutiveFailures[w] + 1
                 /\ ownedOnDownloadCooldown(w)']_vars
    /\ [][\A w \in Workers :
            (pc[w] = "unregistered" /\ pc'[w] # "unregistered")
              => workersRemaining' = workersRemaining - 1]_vars

(***************************************************************************)
(* Properties of the upload heap (SpecHeap).                               *)
(***************************************************************************)
heapIds == {heap[i] : i \in 1..Len(heap)}

\* C6: every managedPop returns a chunk that comes first in the heap order
\* among the chunks in the heap: no chunk of the heap is Less than the one
\* returned (stuck before non-stuck, then the lower ratio of pieces completed
\* to pieces needed).
C6_PopReturnsFirst ==
    [][(pcRepair \in {"pop", "drainPop"} /\ pcRepair' \in {"chunk", "drainKeep"}) =>
          \A i \in 1..Len(heap) : ~chunkLess(uuc[heap[i]], uuc[nextChunk'])]_vars

heapIdsDistinct ==
    /\ \A i, j \in 1..Len(heap) : i # j => heap[i] # heap[j]
    /\ heapChunks = heapIds

\* C7: no chunk id is twice in the heap and heapChunks holds the ids of the
\* heap; a managedPush is rejected only for an id that is in heapChunks or in
\* repairingChunks and then leaves the heap and both sets unchanged; every
\* chunk that enters the heap has an id that was in neither set, is inserted
\* once and its id is added to heapChunks.
C7_PushContract ==
    /\ []heapIdsDistinct
    /\ [][/\ rejectedPush' # NoChunk =>
               /\ rejectedPush' \in heapChunks \cup repairingChunks
               /\ UNCHANGED <<heap, heapChunks, repairingChunks>>
          /\ Len(heap') > Len(heap) =>
               \E id \in ChunkIDs \ (heapChunks \cup repairingChunks) :
                   /\ heap' = Append(heap, id)
                   /\ heapChunks' = heapChunks \cup {id}
                   /\ UNCHANGED repairingChunks]_vars

\* A push was rejected for an id in repairingChunks while the heap holds
\* another chunk.
C7_Witness ==
    /\ rejectedPush \in repairingChunks
    /\ rejectedPush \notin heapChunks
    /\ Len(heap) >= 1

\* C8: managedPop returns nil on an empty heap, and otherwise returns a chunk
\* of the heap and moves its id from heapChunks to repairingChunks.
C8_PopMovesToRepairing ==
    [][(pcRepair \in {"pop", "drainPop"} /\ pcRepair' # pcRepair) =>
          IF heap = <<>>
          THEN nextChunk' = NoChunk /\ UNCHANGED <<heap, heapChunks, repairingChunks>>
          ELSE /\ nextChunk' \in heapIds
               /\ nextChunk' \notin heapChunks'
               /\ nextChunk' \in repairingChunks']_vars

C10_ExecutedExactlyOnce ==
    /\ \A f \in Funcs : executed[f] <= 1
    /\ (completeChan /\ pcApi = "returned" =>
           \A f \in registeredFuncs : executed[f] = 1)

\* The place of function f in the sequence order, 0 when it is not there.
placeIn(order, f) ==
    IF \E i \in 1..Len(order) : order[i] = f
    THEN CHOOSE i \in 1..Len(order) : order[i] = f
    ELSE 0

\* The functions are executed in the order of their registration.
executedInOrder ==
    \A i, j \in 1..Len(executionOrder) :
        i < j => /\ placeIn(registrationOrder, executionOrder[i]) > 0
                 /\ placeIn(registrationOrder, executionOrder[i])
                      < placeIn(registrationOrder, executionOrder[j])

\* C11: the completion functions are executed in the order in which they
\* were registered, and whenever completeChan is closed every registered
\* function has been executed.
C11_OrderedBeforeClose ==
    /\ executedInOrder
    /\ (completeChan =>
          \A i \in 1..Len(registrationOrder) :
              placeIn(executionOrder, registrationOrder[i]) > 0)

\* C12 as claimed: in every state where completeChan is closed, no chunk of
\* the download has a recovery task pending or running.
C12_NoRecoveryWhenComplete ==
    completeChan => \A t \in DownloadChunks : pcComplete[t] # "recovering"

\* C12 as amended: in every state where completeChan is closed and the
\* download has no error, the recovery tasks of all of its chunks have
\* finished; a failure or a cancel closes completeChan at once, whatever the
\* recovery tasks of the other chunks are doing.
C12_RecoveredWhenCompleteWithoutError ==
    completeChan /\ err = NoError =>
        /\ chunksRemaining = 0
        /\ \A t \in DownloadChunks : pcComplete[t] \in {"done", "none"}

\* A download with chunks is complete without error: every chunk was
\* recovered.
C12_Witness ==
    /\ completeChan
    /\ err = NoError
    /\ \A t \in DownloadChunks : pcComplete[t] = "done"

\* C13 as claimed: in every state after the complete latch has fired, the
\* memory of the chunk has been released.
C13_ReleasedWhenComplete == completeChan => memoryReleased

\* No worker has the chunk any more and no call on the chunk is in flight.
chunkAtRest ==
    /\ \A w \in Workers : Handles(w) = 0
    /\ \A t \in Threads : pc[t] # "cleanup"
    /\ recovering = 0

\* C13 as amended: after the complete latch has fired (success, failure or
\* cancel), the memory of the chunk has been released as soon as the last
\* worker is through with the chunk and the recovery or the failure of the
\* chunk has been finalized; the latch itself can fire before that.
C13_ReleasedWhenCompleteAndAtRest ==
    completeChan /\ recoveryComplete /\ chunkAtRest => memoryReleased

\* A cancelled download whose chunk was given up by all workers: the memory
\* has been released.
C13_Witness ==
    /\ completeChan
    /\ err = ErrDownloadCancelled
    /\ chunkAtRest
    /\ memoryReleased
    /\ piecesCompleted < MinPieces

\* C14: cancelling a download that is not complete marks it complete with
\* ErrDownloadCancelled (the step that changes nothing of the chunk and of
\* the workers is the cancel), and every worker that processes the chunk of
\* a cancelled download drops it: it goes on to managedRemoveWorker and
\* claims no piece, nor does it go on standby.
C14_CancelDropsChunk ==
    /\ [][(~completeChan /\ UNCHANGED dlVars) =>
             (completeChan' /\ err' = ErrDownloadCancelled)]_vars
    /\ [][\A w \in Workers :
             (completeChan /\ err = ErrDownloadCancelled
                /\ pc[w] = "process" /\ pc'[w] # "process") =>
                  /\ pc'[w] = "remove"
                  /\ acct'[w] = w
                  /\ UNCHANGED <<piecesRegistered, pieceUsage, workersStandby>>]_vars

\* A worker that could have claimed its piece has dropped the chunk of a
\* cancelled download.
C14_Witness ==
    /\ completeChan
    /\ err = ErrDownloadCancelled
    /\ piecesCompleted < MinPieces
    /\ piecesCompleted + workersRemaining >= MinPieces
    /\ piecesRegistered + piecesCompleted < MinPieces + staticOverdrive
    /\ \E w \in Workers :
         /\ pc[w] = "remove" /\ acct[w] = w
         /\ ~downloadTerminated[w]
         /\ workerHasPiece(w)
         /\ ~completedPieces[pieceIndex(w)]
         /\ ~pieceUsage[pieceIndex(w)]

C16_KilledQueueStaysEmpty ==
    /\ [](\A w \in Workers : downloadTerminated[w] => downloadChunks[w] = <<>>)
    /\ [][/\ \A w \in Workers : downloadTerminated[w] => downloadTerminated'[w]
          /\ \A w \in Workers :
                (~downloadTerminated[w] /\ downloadTerminated'[w]) =>
                    /\ removedChunks'[w] = Len(downloadChunks[w])
                    /\ downloadChunks'[w] = <<>>
          /\ \A w \in Workers :
                removedChunks'[w] < removedChunks[w] =>
                    /\ removedChunks'[w] = removedChunks[w] - 1
                    /\ pc'[w] = "remove"
                    /\ acct'[w] = w
          /\ \A t \in Threads :
                (pc[t] = "queue" /\ pc'[t] # "queue" /\ downloadTerminated[target[t]]) =>
                    /\ UNCHANGED downloadChunks
                    /\ pc'[t] = "remove"
                    /\ acct'[t] = target[t]
          /\ \A w \in Workers :
                (downloadTerminated[w] /\ pc[w] = "dead") =>
                    ~managedKillDownloading(w)]_vars

\* One worker was killed with the chunk in its queue and is being removed
\* from the chunk; the download loop has handed the chunk to another worker
\* that was killed before, and removes that worker.
C16_Witness ==
    \E v, w \in Workers :
        /\ v # w
        /\ downloadTerminated[w] /\ pc[w] = "remove" /\ acct[w] = w
        /\ downloadTerminated[v] /\ pc[Dist] = "remove" /\ acct[Dist] = v

\* C17: a worker is in the standby list of the chunk at most once, and is
\* not in the standby list while it is registered for a piece of the chunk.
C17_StandbyOnce ==
    \A w \in Workers :
        /\ Cardinality({i \in 1..Len(workersStandby) : workersStandby[i] = w}) <= 1
        /\ (onStandby(w) => pc[w] # "fetch")

\* A worker that was handed the chunk a second time, after the failure of a
\* sibling took it off the standby list, is registered for its piece.
C17_Witness ==
    \E v, w \in Workers :
        /\ v # w
        /\ queuedInto[w] >= 2
        /\ pc[w] = "fetch"
        /\ removedFor[v] = 1
        /\ ~onStandby(w)

requestScans == offsetparam \in Word /\ lengthparam \in Word

\* The length requested, in bytes: a length of 0 asks for the rest of the
\* file.
requestedLength ==
    IF lengthparam = 0 THEN fileSize - offsetparam ELSE lengthparam

\* Chunk i holds the bytes [i * ChunkSize, (i + 1) * ChunkSize) of the file.
chunkIntersects(i) ==
    /\ i * ChunkSize < offsetparam + requestedLength
    /\ (i + 1) * ChunkSize > offsetparam

heapIndices == {downloadHeap[k].staticChunkIndex : k \in DOMAIN downloadHeap}

\* C19: a download with length > 0 and offset + length within the size of
\* the file gets one chunk in the download heap for exactly the chunk indices
\* whose bytes intersect [offset, offset + length); when the range ends on a
\* chunk boundary, the chunk that starts there is not among them.
C19_ChunksOfTheRange ==
    (/\ pcRequest = "done"
     /\ fileExists
     /\ requestScans
     /\ requestedLength > 0
     /\ offsetparam + requestedLength <= fileSize)
    => /\ response = "ok"
       /\ heapIndices = {i \in Word : chunkIntersects(i)}
       /\ Len(downloadHeap) = Cardinality(heapIndices)
       /\ ((offsetparam + requestedLength) % ChunkSize = 0
             => ((offsetparam + requestedLength) \div ChunkSize) \notin heapIndices)

\* A download over two chunks or more that starts inside a chunk and ends on
\* the boundary of a chunk of the file that is followed by another chunk.
C19_Witness ==
    /\ pcRequest = "done"
    /\ response = "ok"
    /\ Len(downloadHeap) >= 2
    /\ offsetparam % ChunkSize # 0
    /\ lengthparam > 0
    /\ (offsetparam + lengthparam) % ChunkSize = 0
    /\ offsetparam + lengthparam < fileSize
    /\ ((offsetparam + lengthparam) \div ChunkSize) \notin heapIndices

\* The parameters the request must be refused for: no such file, a negative
\* offset or length, an offset at or beyond the end of a file that is not
\* empty, offset + length beyond the size of the file.
invalidRequest ==
    \/ ~fileExists
    \/ offsetparam < 0
    \/ lengthparam < 0
    \/ (fileSize # 0 /\ offsetparam >= fileSize)
    \/ offsetparam + lengthparam > fileSize

\* C20: a download request with invalid parameters is answered with an
\* error, no download is added to the download history and no chunk is added
\* to the download heap.
C20_InvalidRequestRejected ==
    (pcRequest = "done" /\ invalidRequest)
    => /\ response = "error"
       /\ downloadHistory = <<>>
       /\ downloadHeap = <<>>

\* The sum of the fetch lengths of the first k chunks of the download heap.
RECURSIVE fetchLengthsBefore(_)
fetchLengthsBefore(k) ==
    IF k = 0 THEN 0
    ELSE fetchLengthsBefore(k - 1) + downloadHeap[k].staticFetchLength

\* C34: the chunks of an accepted download of length L > 0 at offset O
\* partition the range requested: the first chunk is fetched from O modulo
\* the chunk size, every later chunk from 0, the fetch lengths add up to L,
\* and every chunk is written at the sum of the fetch lengths of the chunks
\* before it.
C34_FetchWindowsPartition ==
    (pcRequest = "done" /\ response = "ok" /\ params.Length > 0)
    => /\ Len(downloadHeap) >= 1
       /\ fetchLengthsBefore(Len(downloadHeap)) = params.Length
       /\ \A k \in DOMAIN downloadHeap :
             /\ downloadHeap[k].staticFetchOffset =
                    (IF k = 1 THEN params.Offset % ChunkSize ELSE 0)
             /\ downloadHeap[k].staticWriteOffset = fetchLengthsBefore(k - 1)

(***************************************************************************)
(* Properties of the bytes received (SpecCounted).                         *)
(***************************************************************************)
\* C21: once K pieces of a chunk have completed, the chunk has added its
\* fetch length to the bytes received of the download, whether K divides the
\* fetch length or not, and the pieces that complete after the K-th add
\* nothing; before that each piece has added a K-th of the fetch length,
\* rounded down.
C21_ReceivedIsFetchLength ==
    /\ piecesCompleted >= codeMinPieces => atomicDataReceived = chunkFetchLength
    /\ piecesCompleted < codeMinPieces
         => atomicDataReceived = piecesCompleted * (chunkFetchLength \div codeMinPieces)

\* A piece has completed after the K-th on a chunk whose fetch length K does
\* not divide.
C21_Witness ==
    /\ codeMinPieces > 1
    /\ chunkFetchLength % codeMinPieces # 0
    /\ piecesCompleted > codeMinPieces
    /\ atomicDataReceived = chunkFetchLength

(***************************************************************************)
(* Properties of the iterations of the repair loop (SpecRepairLoop).       *)
(***************************************************************************)
\* The step of managedRepairLoop that ends the iteration on the chunk popped.
iterationEnds == pcRepair = "checked" /\ pcRepair' # "checked"

\* threadedFetchAndRepairChunk is started for chunk id with its memory.
memoryGranted(id) == fetching'[id] > fetching[id]

\* Chunk id is handed to the workers.
dispatched(id) == distributed'[id] > distributed[id]

\* C24: when the repair loop has popped a chunk and fewer workers than the
\* chunk's minimumPieces are available, the chunk is marked stuck in its
\* file, no memory is requested for it, it is not dispatched to any worker,
\* and the loop goes on to pop the next chunk.
C24_TooFewWorkersSkips ==
    [][(iterationEnds /\ availableWorkers < MinPieces)
         => /\ nextChunk \in fileStuck'
            /\ fetching' = fetching
            /\ distributed' = distributed
            /\ repairingChunks' = repairingChunks
            /\ pcRepair' = "pop"]_vars

\* A chunk that was not stuck has been set stuck in its file by the loop,
\* which has popped the next chunk.
C24_Witness ==
    /\ pcRepair = "chunk"
    /\ \E id \in fileStuck : ~uuc[id].stuck /\ id # nextChunk /\ fetching[id] = 0
                               /\ distributed[id] = 0

\* C25 as claimed: for a chunk popped whose file has a health of 0.8 or more
\* the recent repair time of the file is updated, before the memory of the
\* chunk is released.
C25_StampedAtOrAboveThreshold ==
    (pcRepair \in {"workers", "checked"} /\ health >= healthThreshold)
        => updatedRecentRepairTime

\* C25 as amended: the recent repair time of the file is updated for a chunk
\* popped exactly when the health of its file is below 0.8, and the update
\* comes before the memory of the chunk is requested, hence before it is
\* released.
C25_StampedBelowThreshold ==
    /\ [](pcRepair \in {"workers", "checked"}
            => (updatedRecentRepairTime <=> health < healthThreshold))
    /\ [][\A id \in ChunkIDs :
            memoryGranted(id)
              => /\ id = nextChunk
                 /\ health # NoHealth
                 /\ (health < healthThreshold => updatedRecentRepairTime)]_vars
    /\ [][updatedRecentRepairTime' /\ ~updatedRecentRepairTime
            => pcRepair = "chunk" /\ fetching' = fetching]_vars

\* The recent repair time was updated for the chunk popped, workers enough
\* are there and so is the memory the chunk is about to ask for.
C25_Witness ==
    /\ pcRepair = "checked"
    /\ health < healthThreshold
    /\ updatedRecentRepairTime
    /\ availableWorkers >= MinPieces
    /\ memoryInUse < UploadMemory

\* C30: for each chunk popped the loop reads the health (updating the recent
\* repair time when it is below 0.8), then counts the workers, then requests
\* the memory, then starts the repair thread: a chunk is handed to a repair
\* thread only with its memory granted, and a chunk whose request is refused
\* is not dispatched.
C30_StepsInOrder ==
    /\ [][health' # health /\ health' # NoHealth
            => /\ pcRepair = "chunk"
               /\ availableWorkers = NoCount
               /\ updatedRecentRepairTime' = (health' < healthThreshold)]_vars
    /\ [][availableWorkers' # availableWorkers /\ availableWorkers' # NoCount
            => health # NoHealth /\ fetching' = fetching]_vars
    /\ [][\A id \in ChunkIDs :
            memoryGranted(id)
              => /\ id = nextChunk
                 /\ availableWorkers >= MinPieces
                 /\ memoryInUse < UploadMemory
                 /\ memoryInUse' = memoryInUse + 1]_vars
    /\ [][\A id \in ChunkIDs : dispatched(id) => fetching[id] > fetching'[id]]_vars
    /\ [](memoryInUse <= UploadMemory)

\* A chunk is with the workers while the loop, on the next chunk, finds the
\* memory used up.
C30_Witness ==
    /\ pcRepair = "checked"
    /\ availableWorkers >= MinPieces
    /\ memoryInUse = UploadMemory
    /\ \E id \in ChunkIDs : distributed[id] > 0

(***************************************************************************)
(* Properties of buildUnfinishedChunks (SpecBuild).                        *)
(***************************************************************************)
\* The call has returned, for a file that has chunks.
buildReturned == build.pcBuild \in {"returned", "done"} /\ Len(build.stuck) > 0

\* C22: when there are fewer workers than the pieces the file's erasure code
\* needs at least, all chunks of the file are marked stuck, no unfinished
\* chunk of the file is returned and none is pushed to the upload heap.
C22_TooFewWorkersAllStuck ==
    (buildReturned /\ build.workerPool < MinPieces)
        => /\ \A i \in DOMAIN build.stuck : build.stuck[i]
           /\ build.returned = <<>>
           /\ build.pushed = {}

\* The caller is through with a file of several chunks for which the workers
\* did not suffice: every entry is closed and every chunk is stuck.
C22_Witness ==
    /\ build.pcBuild = "done"
    /\ build.workerPool < MinPieces
    /\ Len(build.stuck) > 1
    /\ build.closed = 0..(Len(build.stuck) - 1)
    /\ \A i \in DOMAIN build.stuck : build.stuck[i]

C33_EntriesDisposedOnce ==
    buildReturned =>
        \A e \in 0..(Len(build.stuck) - 1) :
            LET holders == {k \in DOMAIN build.returned :
                              build.returned[k].fileEntry = e}
            IN IF e \in build.closed
               THEN holders = {}
               ELSE Cardinality(holders) = 1

(***************************************************************************)
(* Properties of the download history (SpecHistory).                       *)
(***************************************************************************)
\* ClearDownloadHistory returns in this step, of a renter that is not stopped.
clearReturns == clearing = NoClear /\ clearing' # NoClear /\ clearing'.err # ErrStopped

\* C26: ClearDownloadHistory(after, before) removes from the download history
\* exactly the downloads whose start time is in the range from after to
\* before, both included, and keeps the others in their order; when before
\* is earlier than after it returns an error and leaves the history as it is.
C26_ClearsTheRangeOrFails ==
    [][clearReturns
         => IF clearing'.before < clearing'.after
            THEN clearing'.err # NoError /\ downloadHistory' = downloadHistory
            ELSE /\ clearing'.err = NoError
                 /\ downloadHistory' =
                      SelectSeq(downloadHistory,
                                LAMBDA d : ~(/\ clearing'.after <= d.staticStartTime
                                             /\ d.staticStartTime <= clearing'.before))]_vars

(***************************************************************************)
(* Properties of the mutexes (SpecLocks).                                  *)
(***************************************************************************)
\* The threads of S wait for mutexes that threads of S hold.
deadlocked(S) ==
    \A t \in S : waiting(t) /\ \E u \in S : wantedMutex(t) \in lk.held[u]

\* C29: no thread locks the mutex of the chunk while it holds the downloadMu
\* of a worker, and no thread locks the mutex of the chunk while it holds it
\* already; so the threads that kill a worker, queue the chunk, process it
\* and complete a piece of it never wait for each other in a circle.
C29_NoLockOrderInversion ==
    /\ \A t \in Threads :
         (waiting(t) /\ wantedMutex(t) = udcMu) => lk.held[t] = {}
    /\ \A S \in SUBSET Threads : S # {} => ~deadlocked(S)

\* A worker is being killed under its downloadMu while the download loop
\* waits for that mutex to queue the chunk and another worker completes its
\* piece under the mutex of the chunk.
C29_Witness ==
    \E v, w \in Workers :
        /\ v # w
        /\ lk.at[v] = "in_kill"
        /\ lk.at[Dist] = "queue" /\ lk.target[Dist] = v
        /\ lk.at[w] = "in_complete"

(***************************************************************************)
(* Properties of managedBuildAndPushChunks (SpecPush).                     *)
(***************************************************************************)
\* C32: when managedBuildAndPushChunks has returned, the unfinished chunks of
\* every file of the list were pushed, also those of the files that come
\* after a file without unfinished chunks.
C32_EveryFilePushed ==
    build.pcBuild = "pushed" =>
        \A f \in 1..Len(build.files) :
            unfinishedUploadChunks(build.files, f) \subseteq build.pushed

(***************************************************************************)
(* Properties of the fetch window (SpecSector).                            *)
(***************************************************************************)
\* C35: for every fetch offset and every fetch length greater than 0 within
\* a chunk, with partial encoding the segments returned cover the bytes
\* [fetchOffset, fetchOffset + fetchLength) of the chunk, lie within the
\* sector, and the first and the last of them hold a byte of that range;
\* without partial encoding the whole sector is returned. The offset and
\* the length within the sector are those of the segments.
C35_SegmentsCoverTheRange ==
    call.pcCall = "fetched" =>
        LET recovered == call.minPieces * SegmentSize
            first == call.segments.segmentIndex
            num == call.segments.numSegments
            from == call.fetchOffset
            to == call.fetchOffset + call.fetchLength
        IN /\ call.sector.offset = first * SegmentSize
           /\ call.sector.length = num * SegmentSize
           /\ IF call.partial
              THEN /\ num >= 1
                   /\ first + num <= SectorSegments
                   /\ first * recovered <= from
                   /\ (first + num) * recovered >= to
                   /\ (first + 1) * recovered > from
                   /\ (first + num - 1) * recovered < to
              ELSE first = 0 /\ num = SectorSegments

\* A range that begins inside one recovered segment and ends inside the
\* next one, of a code with several data pieces.
C35_Witness ==
    /\ call.pcCall = "fetched"
    /\ call.partial
    /\ call.minPieces > 1
    /\ call.fetchOffset % (call.minPieces * SegmentSize) # 0
    /\ (call.fetchOffset + call.fetchLength) % (call.minPieces * SegmentSize) # 0
    /\ call.segments.numSegments > 1

(***************************************************************************)
(* Properties of the downloads of the API (SpecApi).                       *)
(***************************************************************************)
\* C36: once an asynchronous download has completed and its handler has
\* returned, api.downloads has no entry for its id.
C36_NoEntryAfterCompletion ==
    \A id \in AsyncIDs :
        (call.handler[id] = "returned" /\ call.mark[id] = "closed")
            => id \notin call.downloads


(***************************************************************************)
(* Properties of the SiaFileSet (SpecFileSet).                             *)
(***************************************************************************)
\* C37: siapathToUID and siaFileMap are consistent after every call: every
\* siapath of siapathToUID maps to a uid that siaFileMap holds, and every
\* entry of siaFileMap is the target of exactly one siapath, the siapath of
\* its file.
C37_MapsConsistent ==
    call.pcCall = "fileset" =>
        /\ \A p \in SiaPaths :
              call.siapathToUID[p] # NoUID
                  => call.siapathToUID[p] \in call.siaFileMap
        /\ \A uid \in call.siaFileMap :
              {p \in SiaPaths : call.siapathToUID[p] = uid}
                  = {siaPath(call, uid)}


(***************************************************************************)
(* Properties of Snapshot (SpecSnapshot).                                  *)
(***************************************************************************)
\* C38: a Snapshot that has returned holds no read lock of the siafile:
\* the read locks held are those of the calls between RLock and RUnlock,
\* so that once every call has returned and no writer holds the lock, a
\* writer can take it.
C38_ReadLockReleased ==
    call.pcCall = "snapshot" =>
        /\ call.readers
              = Cardinality({t \in Snapshots : call.pcSnapshot[t] = "rlocked"})
        /\ (\A t \in Snapshots : call.pcSnapshot[t] \in {"idle", "returned"})
              => (~call.writer => ENABLED SiaFileLock)


(***************************************************************************)
(* Properties of applyUpdates (SpecUpdates).                               *)
(***************************************************************************)
\* The place in given of the last delete update, 0 when there is none.
lastDelete ==
    LET deletes == {n \in 1..Len(call.given) : call.given[n] = "updateDeleteName"}
    IN IF deletes = {} THEN 0 ELSE CHOOSE n \in deletes : \A m \in deletes : m <= n

\* C39: a call whose list holds a delete update does not stop on an index
\* out of range, and when it returns without an error it has carried out
\* the last delete and then the updates after it, in order, and nothing
\* else.
C39_LastDeleteThenTheRest ==
    (call.pcCall = "updates" /\ lastDelete > 0) =>
        /\ call.pc # "panic"
        /\ (call.pc = "returned" /\ ~call.err) =>
              call.performed
                 = [n \in 1..(Len(call.given) - lastDelete + 1) |-> lastDelete + n - 1]


(***************************************************************************)
(* Properties of Node.Close (SpecNode).                                    *)
(***************************************************************************)
\* C40: when Node.Close has returned, Close was called on every module of
\* the node, and the error returned holds the error of every module whose
\* Close failed: it is not nil when one of them failed.
C40_AllClosedAllErrors ==
    (call.pcCall = "node" /\ call.pc = "returned") =>
        /\ call.closed = call.present
        /\ call.err = call.failing
        /\ call.failing # {} => call.err # {}

====
